---- MODULE Spec2Model ----
(***************************************************************************)
(* Multi-chapter report assembly with global reference deduplication.     *)
(*                                                                         *)
(*   src/ai_engine/utils.py      GlobalReferenceManager,                   *)
(*                               parse_chapter_output                      *)
(*   src/ai_engine/generator.py  generate_single_chapter                   *)
(*   src/interface/app.py        generate_long_report                      *)
(*                                                                         *)
(* Texts that the code scans (chapter bodies, local tags, raw generator    *)
(* output) are sequences of one-character strings, so that the regular     *)
(* expression of process_chapter_content and the formatting of             *)
(* f"[Ref-{global_id}]" are computed and not assumed.  URLs and titles are *)
(* only compared for equality and tested for emptiness, so they are plain  *)
(* strings; "" is the empty string, which is also what ref.get(key, '')    *)
(* yields for a missing key.                                               *)
(***************************************************************************)
EXTENDS Integers, Sequences, FiniteSets, TLC

VARIABLES
    url_map,          \* self.url_map: URL -> global id
    next_id,          \* self.next_id
    global_refs,      \* self.global_refs: list of {"id", "url", "title"}
    pc,               \* position of the caller of the manager
    content,          \* argument of the call in progress
    chapter_refs,     \* argument of the call in progress
    local_to_global,  \* the local dict of the call in progress
    new_content,      \* value returned by process_chapter_content
    bibliography,     \* the lines that get_final_bibliography renders
    bibliography_text, \* value returned by get_final_bibliography
    prev_mapping,     \* history: the dict of the call before the one in progress
    first_seen,       \* history: URLs in order of first accepted occurrence
    first_title,      \* history: title carried by that first occurrence
    encountered,      \* history: every non-empty URL of every list passed in
    rpc,              \* position of generate_long_report
    outline,          \* outline: list of {"title", "focus"}
    index,            \* index of the loop over the outline (0-based)
    previous_context, \* previous_context of the chapter in progress
    search_data,      \* search_data['raw_data'] of the chapter in progress
    full_report,      \* full_report, as the list of the pieces added to it
    previous_summaries, \* previous_summaries
    searched,         \* history: the URLs the search returned in this run
    chapter_log,      \* history: what each processed chapter was made from
    search_source,    \* search_data['search_source'] of the chapter in progress
    log_stream,       \* log_stream.content, as the list of its telling lines
    ended_at,         \* history: where the run was when it was left without a result
    ppc,              \* position of the caller of parse_chapter_output
    raw_text,         \* raw_output, the argument of parse_chapter_output
    parsed,           \* value returned by parse_chapter_output: content and refs
    managers,         \* the GlobalReferenceManager instances, by the run that made them
    run_pc,           \* position of each run of generate_long_report
    run_chapters,     \* history: per run, the calls of process_chapter_content it made
    run_bibliography, \* per run, the value of get_final_bibliography
    spc,              \* position of the caller of summarize_chapter
    summary_content,  \* content, the first argument of summarize_chapter
    summary_max_length, \* max_length, its second argument
    chapter_summary,  \* value returned by summarize_chapter
    ref_count,        \* value returned by get_ref_count
    attempts          \* the search and completion calls made so far, by chapter

mgr_vars    == <<url_map, next_id, global_refs>>
call_vars   == <<pc, content, chapter_refs, local_to_global, new_content, bibliography,
                 bibliography_text>>
hist_vars   == <<prev_mapping, first_seen, first_title, encountered>>
report_vars == <<rpc, outline, index, previous_context, search_data, full_report,
                 previous_summaries, searched, chapter_log, search_source, log_stream,
                 ended_at>>
parse_vars  == <<ppc, raw_text, parsed>>
runs_vars   == <<managers, run_pc, run_chapters, run_bibliography>>
summary_vars == <<spc, summary_content, summary_max_length, chapter_summary>>
count_vars  == <<ref_count>>
attempt_vars == <<attempts>>
vars        == <<mgr_vars, call_vars, hist_vars, report_vars, parse_vars, runs_vars,
                 summary_vars, count_vars, attempt_vars>>

-----------------------------------------------------------------------------
(* Bounds of the model *)

MaxRefs   == 2     \* longest chapter_refs list
MaxPieces == 2     \* longest body, counted in pieces
MaxChapters == 2   \* longest outline
MaxBlocks == 4     \* longest raw output in the separator format, counted in pieces
MaxWords == 4      \* longest raw output without separator, counted in pieces
MaxTextPieces == 4 \* longest text to summarize, counted in pieces
MaxSummary == 4    \* greatest max_length passed to summarize_chapter
MaxLoopChapters == 4 \* longest outline of the runs that vary the outline only

-----------------------------------------------------------------------------
(* Text helpers *)

Digits == <<"0", "1", "2", "3", "4", "5", "6", "7", "8", "9">>

IsDigit(c) == c \in {Digits[i] : i \in 1..10}

\* str(n) for a non-negative integer: decimal, no leading zeros
RECURSIVE IntToStr(_)
IntToStr(n) ==
    IF n < 10 THEN <<Digits[n + 1]>>
    ELSE IntToStr(n \div 10) \o <<Digits[(n % 10) + 1]>>

RefPrefix == <<"[", "R", "e", "f", "-">>

\* f"[Ref-{global_id}]"
FormatRef(global_id) == RefPrefix \o IntToStr(global_id) \o <<"]">>

RECURSIVE Flatten(_)
Flatten(ss) == IF ss = <<>> THEN <<>> ELSE Head(ss) \o Flatten(Tail(ss))

SeqsUpTo(S, n) == UNION {[1..k -> S] : k \in 0..n}

Range(f) == {f[x] : x \in DOMAIN f}

EmptyMap == [x \in {} |-> 0]

\* d[k] = v on a Python dict
MapPut(d, k, v) == [x \in (DOMAIN d) \cup {k} |-> IF x = k THEN v ELSE d[x]]

\* d.get(k, default)
MapGet(d, k, default) == IF k \in DOMAIN d THEN d[k] ELSE default

-----------------------------------------------------------------------------
(* GlobalReferenceManager.process_chapter_content *)

\* Variants of the loop body with one slip each
\* (a) the URL is not looked up: every accepted entry gets a new ID
ProcessRef_NoLookup(st, ref) ==
    IF ref.id = <<>> \/ ref.url = "" THEN st
    ELSE [st EXCEPT
            !.url_map     = MapPut(@, ref.url, st.next_id),
            !.next_id     = @ + 1,
            !.global_refs = Append(@, [id |-> st.next_id, url |-> ref.url,
                                       title |-> ref.title]),
            !.local_to_global = MapPut(@, ref.id, FormatRef(st.next_id))]

\* (b) the counter advances by two
ProcessRef_SkipsIds(st, ref) ==
    IF ref.id = <<>> \/ ref.url = "" THEN st
    ELSE LET known     == ref.url \in DOMAIN st.url_map
             global_id == IF known THEN st.url_map[ref.url] ELSE st.next_id
             reg == IF known THEN st
                    ELSE [st EXCEPT
                            !.url_map     = MapPut(@, ref.url, global_id),
                            !.next_id     = @ + 2,
                            !.global_refs = Append(@, [id |-> global_id, url |-> ref.url,
                                                       title |-> ref.title])]
         IN  [reg EXCEPT !.local_to_global = MapPut(@, ref.id, FormatRef(global_id))]

\* (c) only the URL is tested for emptiness
ProcessRef_TagNotTested(st, ref) ==
    IF ref.url = "" THEN st
    ELSE LET known     == ref.url \in DOMAIN st.url_map
             global_id == IF known THEN st.url_map[ref.url] ELSE st.next_id
             reg == IF known THEN st
                    ELSE [st EXCEPT
                            !.url_map     = MapPut(@, ref.url, global_id),
                            !.next_id     = @ + 1,
                            !.global_refs = Append(@, [id |-> global_id, url |-> ref.url,
                                                       title |-> ref.title])]
         IN  [reg EXCEPT !.local_to_global = MapPut(@, ref.id, FormatRef(global_id))]

\* (d) only the tag is tested for emptiness
ProcessRef_UrlNotTested(st, ref) ==
    IF ref.id = <<>> THEN st
    ELSE LET known     == ref.url \in DOMAIN st.url_map
             global_id == IF known THEN st.url_map[ref.url] ELSE st.next_id
             reg == IF known THEN st
                    ELSE [st EXCEPT
                            !.url_map     = MapPut(@, ref.url, global_id),
                            !.next_id     = @ + 1,
                            !.global_refs = Append(@, [id |-> global_id, url |-> ref.url,
                                                       title |-> ref.title])]
         IN  [reg EXCEPT !.local_to_global = MapPut(@, ref.id, FormatRef(global_id))]

\* (e) a known URL takes the title of the entry that brings it back
ProcessRef_UpdatesTitle(st, ref) ==
    IF ref.id = <<>> \/ ref.url = "" THEN st
    ELSE IF ref.url \in DOMAIN st.url_map
    THEN [st EXCEPT
            !.global_refs = [k \in 1..Len(@) |->
                                IF @[k].url = ref.url
                                THEN [@[k] EXCEPT !.title = ref.title] ELSE @[k]],
            !.local_to_global = MapPut(@, ref.id, FormatRef(st.url_map[ref.url]))]
    ELSE [st EXCEPT
            !.url_map     = MapPut(@, ref.url, st.next_id),
            !.next_id     = @ + 1,
            !.global_refs = Append(@, [id |-> st.next_id, url |-> ref.url,
                                       title |-> ref.title]),
            !.local_to_global = MapPut(@, ref.id, FormatRef(st.next_id))]

\* (f) an entry is taken only when its tag opens as a marker does
ProcessRef_MarkersOnly(st, ref) ==
    IF ref.id = <<>> \/ ref.url = "" THEN st
    ELSE IF ~(Len(ref.id) > 5 /\ SubSeq(ref.id, 1, 5) = RefPrefix) THEN st
    ELSE LET known     == ref.url \in DOMAIN st.url_map
             global_id == IF known THEN st.url_map[ref.url] ELSE st.next_id
             reg == IF known THEN st
                    ELSE [st EXCEPT
                            !.url_map     = MapPut(@, ref.url, global_id),
                            !.next_id     = @ + 1,
                            !.global_refs = Append(@, [id |-> global_id, url |-> ref.url,
                                                       title |-> ref.title])]
         IN  [reg EXCEPT !.local_to_global = MapPut(@, ref.id, FormatRef(global_id))]

\* (g) a new URL is appended to the list and not entered in url_map
ProcessRef_NotEntered(st, ref) ==
    IF ref.id = <<>> \/ ref.url = "" THEN st
    ELSE LET known     == ref.url \in DOMAIN st.url_map
             global_id == IF known THEN st.url_map[ref.url] ELSE st.next_id
             reg == IF known THEN st
                    ELSE [st EXCEPT
                            !.next_id     = @ + 1,
                            !.global_refs = Append(@, [id |-> global_id, url |-> ref.url,
                                                       title |-> ref.title])]
         IN  [reg EXCEPT !.local_to_global = MapPut(@, ref.id, FormatRef(global_id))]

\* One iteration of `for ref in chapter_refs`, on the record
\* st = [url_map, next_id, global_refs, local_to_global].
ProcessRef(st, ref) ==
    LET local_tag == ref.id
        url       == ref.url
        title     == ref.title
    IN  IF local_tag = <<>> \/ url = "" THEN st
        ELSE
          LET known     == url \in DOMAIN st.url_map
              global_id == IF known THEN st.url_map[url] ELSE st.next_id
              reg == IF known THEN st
                     ELSE [st EXCEPT
                             !.url_map     = MapPut(@, url, global_id),
                             !.next_id     = @ + 1,
                             !.global_refs = Append(@, [id    |-> global_id,
                                                        url   |-> url,
                                                        title |-> title])]
          IN  [reg EXCEPT !.local_to_global =
                              MapPut(@, local_tag, FormatRef(global_id))]

RECURSIVE ProcessRefs(_, _)
ProcessRefs(st, refs) ==
    IF refs = <<>> THEN st
    ELSE ProcessRefs(ProcessRef(st, Head(refs)), Tail(refs))

\* Variant: the dict is not rebuilt, the call goes on with the one it finds
InitialMapping_Kept(previous) == previous

\* The mapping a call starts from: local_to_global = {}
InitialMapping(previous) == EmptyMap

\* First index after the run of digits that starts at j
RECURSIVE DigitRun(_, _)
DigitRun(s, j) ==
    IF j <= Len(s) /\ IsDigit(s[j]) THEN DigitRun(s, j + 1) ELSE j

\* Index of the closing bracket of a match of \[Ref-\d+\] that starts at i,
\* or 0 when there is no match at i.
MatchEnd(s, i) ==
    IF i + 4 <= Len(s) /\ SubSeq(s, i, i + 4) = RefPrefix
    THEN LET d == DigitRun(s, i + 5)
         IN  IF d > i + 5 /\ d <= Len(s) /\ s[d] = "]" THEN d ELSE 0
    ELSE 0

\* Variant: local_to_global.get(tag, ""), an unmapped marker is dropped
ReplaceMatch_Drops(mapping, tag) == MapGet(mapping, tag, <<>>)

\* Variant: the match is put back as it was found
ReplaceMatch_Identity(mapping, tag) == tag

\* replace_match: local_to_global.get(tag, tag)
ReplaceMatch(mapping, tag) == MapGet(mapping, tag, tag)

\* re.sub(r"\[Ref-\d+\]", replace_match, content): leftmost non-overlapping
\* matches, the replacement text is not scanned again.
RECURSIVE ReSubFrom(_, _, _)
ReSubFrom(mapping, s, i) ==
    IF i > Len(s) THEN <<>>
    ELSE LET e == MatchEnd(s, i)
         IN  IF e > 0
             THEN ReplaceMatch(mapping, SubSeq(s, i, e)) \o ReSubFrom(mapping, s, e + 1)
             ELSE <<s[i]>> \o ReSubFrom(mapping, s, i + 1)

\* Variant: the text that the replacements left is scanned once more
ReSub_Rescanned(mapping, s) == ReSubFrom(mapping, ReSubFrom(mapping, s, 1), 1)

ReSub(mapping, s) == ReSubFrom(mapping, s, 1)

\* get_final_bibliography: "" when there is no reference, else the heading
\* followed by one line per reference; the value is the list of lines that
\* "\n".join(lines) joins, a line being the list of its fragments.
\* The CJK words of the heading and of the link label are written in pinyin.
BibHeading == <<"\n---\n\n## CanKaoWenXian (References)\n">>

BibLine(ref) == <<"- ", FormatRef(ref.id), " ", ref.title, ", LianJie: ", ref.url>>

\* Variant: the entries are listed last first
GetFinalBibliographyOf_Reversed(refs) ==
    IF refs = <<>> THEN <<>>
    ELSE <<BibHeading>> \o [i \in 1..Len(refs) |-> BibLine(refs[Len(refs) + 1 - i])]

GetFinalBibliographyOf(refs) ==
    IF refs = <<>> THEN <<>>
    ELSE <<BibHeading>> \o [i \in 1..Len(refs) |-> BibLine(refs[i])]

\* The string that a sequence of characters spells
RECURSIVE StrOf(_)
StrOf(chars) == IF chars = <<>> THEN "" ELSE Head(chars) \o StrOf(Tail(chars))

\* The string of one line: the heading, or the six parts of an entry line
LineText(line) ==
    IF Len(line) = 1 THEN line[1]
    ELSE line[1] \o StrOf(line[2]) \o line[3] \o line[4] \o line[5] \o line[6]

\* Variant: the lines are joined without the line breaks
RECURSIVE BibliographyText_Unbroken(_)
BibliographyText_Unbroken(lines) ==
    IF lines = <<>> THEN ""
    ELSE LineText(Head(lines)) \o BibliographyText_Unbroken(Tail(lines))

\* "\n".join(lines)
RECURSIVE BibliographyText(_)
BibliographyText(lines) ==
    IF lines = <<>> THEN ""
    ELSE IF Len(lines) = 1 THEN LineText(lines[1])
    ELSE LineText(Head(lines)) \o "\n" \o BibliographyText(Tail(lines))

-----------------------------------------------------------------------------
(* Inputs *)

Tags   == {<<>>, FormatRef(1), FormatRef(10)}
Urls   == {"", "https://a.com", "https://b.com"}
Titles == {"A", "B"}

Accepted(ref) == ref.id # <<>> /\ ref.url # ""

\* The title of an entry that the loop skips is never read: one title is
\* enough for those.
RefEntries == {r \in [id : Tags, url : Urls, title : Titles] :
                  Accepted(r) \/ r.title = "A"}
RefLists   == SeqsUpTo(RefEntries, MaxRefs)

\* Bodies that cite the tags of the lists, for the calls that vary the list
CitingBodies == {p \o q : p, q \in {<<>>, FormatRef(1), FormatRef(10)}}

\* Bodies made of markers (the tag "[Ref-3]" is never bound), plain text and
\* an unfinished marker, for the calls that vary the body; their lists bind
\* up to two tags.
Pieces == {FormatRef(1), FormatRef(10), FormatRef(3), <<"x">>, RefPrefix}
Bodies == {Flatten(ps) : ps \in SeqsUpTo(Pieces, MaxPieces)}
BindingEntries == {r \in RefEntries : Accepted(r) /\ r.title = "A"}
BindingLists   == {<<>>} \cup {<<r>> : r \in BindingEntries}
                         \cup {<<r, q>> : r, q \in BindingEntries}

\* Smaller inputs for the runs in which the dict of a finished call stays
\* observable: one title, bodies of at most one marker.
ScopedRefLists == SeqsUpTo({r \in RefEntries : r.title = "A"}, MaxRefs)
ScopedBodies   == {<<>>, FormatRef(1), FormatRef(10), FormatRef(3)}

\* Lists whose tags are any strings, a marker being one of them: ref.get('id')
\* is whatever the chapter's reference block carried
FreeTags    == {<<>>, <<"[", "1", "]">>, FormatRef(1)}
FreeEntries == [id : FreeTags, url : Urls, title : {"A"}]
FreeLists   == SeqsUpTo(FreeEntries, MaxRefs)
FreeBodies  == {<<>>, <<"[", "1", "]">>, FormatRef(1)}

\* Lists that bind the tags "[Ref-1]" and "[Ref-2]", the tags a later chapter
\* numbers its own references with, and bodies that cite them
NumberedEntries == [id : {FormatRef(1), FormatRef(2)},
                    url : {"https://a.com", "https://b.com"}, title : {"A"}]
NumberedLists   == SeqsUpTo(NumberedEntries, MaxRefs)
NumberedPieces  == {FormatRef(1), FormatRef(2), FormatRef(3), <<"x">>}
NumberedBodies  == {Flatten(ps) : ps \in SeqsUpTo(NumberedPieces, MaxPieces)}

-----------------------------------------------------------------------------
(* History of the inputs, kept apart from the manager's own state *)

RECURSIVE NoteFirstSeen(_, _)
NoteFirstSeen(seen, refs) ==
    IF refs = <<>> THEN seen
    ELSE LET r == Head(refs)
         IN  NoteFirstSeen(IF Accepted(r) /\ r.url \notin Range(seen)
                           THEN Append(seen, r.url) ELSE seen,
                           Tail(refs))

RECURSIVE NoteFirstTitle(_, _)
NoteFirstTitle(titles, refs) ==
    IF refs = <<>> THEN titles
    ELSE LET r == Head(refs)
         IN  NoteFirstTitle(IF Accepted(r) /\ r.url \notin DOMAIN titles
                            THEN MapPut(titles, r.url, r.title) ELSE titles,
                            Tail(refs))

-----------------------------------------------------------------------------
(* The manager driven by an arbitrary caller *)

\* The runs of generate_long_report that share the event loop
Runs == {"a", "b"}

\* GlobalReferenceManager(): the attributes that __init__ sets
FreshManager == [url_map |-> EmptyMap, next_id |-> 1, global_refs |-> <<>>]

Init ==
    /\ url_map = EmptyMap
    /\ next_id = 1
    /\ global_refs = <<>>
    /\ pc = "idle"
    /\ content = <<>>
    /\ chapter_refs = <<>>
    /\ local_to_global = EmptyMap
    /\ new_content = <<>>
    /\ bibliography = <<>>
    /\ bibliography_text = ""
    /\ prev_mapping = EmptyMap
    /\ first_seen = <<>>
    /\ first_title = EmptyMap
    /\ encountered = {}
    /\ rpc = "outline"
    /\ outline = <<>>
    /\ index = 0
    /\ previous_context = <<>>
    /\ search_data = <<>>
    /\ full_report = <<>>
    /\ previous_summaries = <<>>
    /\ searched = {}
    /\ chapter_log = <<>>
    /\ search_source = "none"
    /\ log_stream = <<>>
    /\ ended_at = [at |-> "", completed |-> 0]
    /\ ppc = "idle"
    /\ raw_text = <<>>
    /\ parsed = [content |-> <<>>, refs |-> <<>>]
    /\ managers = [run \in Runs |-> FreshManager]
    /\ run_pc = [run \in Runs |-> "new"]
    /\ run_chapters = [run \in Runs |-> <<>>]
    /\ run_bibliography = [run \in Runs |-> ""]
    /\ spc = "idle"
    /\ summary_content = <<>>
    /\ summary_max_length = 0
    /\ chapter_summary = <<>>
    /\ ref_count = 0
    /\ attempts = <<>>

\* The caller passes (content, chapter_refs)
CallWith(bodies, lists) ==
    /\ pc = "idle"
    /\ \E c \in bodies, refs \in lists :
          /\ content' = c
          /\ chapter_refs' = refs
    /\ pc' = "called"
    /\ UNCHANGED <<mgr_vars, local_to_global, new_content, bibliography,
                   bibliography_text, hist_vars, report_vars, parse_vars, runs_vars, summary_vars, count_vars, attempt_vars>>

Call == CallWith(CitingBodies, RefLists)

CallOnText == CallWith(Bodies, BindingLists)

CallScoped == CallWith(ScopedBodies, ScopedRefLists)

\* What one call process_chapter_content(c, refs) does to the manager, with
\* the value it returns in new_content
ProcessChapterContentOn(c, refs) ==
    /\ LET st0 == [url_map |-> url_map, next_id |-> next_id,
                   global_refs |-> global_refs,
                   local_to_global |-> InitialMapping(local_to_global)]
           st  == ProcessRefs(st0, refs)
       IN  /\ url_map' = st.url_map
           /\ next_id' = st.next_id
           /\ global_refs' = st.global_refs
           /\ local_to_global' = st.local_to_global
           /\ new_content' = ReSub(st.local_to_global, c)
    /\ content' = c
    /\ chapter_refs' = refs
    /\ prev_mapping' = local_to_global
    /\ first_seen' = NoteFirstSeen(first_seen, refs)
    /\ first_title' = NoteFirstTitle(first_title, refs)
    /\ encountered' = encountered \cup ({refs[i].url : i \in 1..Len(refs)} \ {""})

ProcessChapterContent ==
    /\ pc = "called"
    /\ ProcessChapterContentOn(content, chapter_refs)
    /\ pc' = "returned"
    /\ UNCHANGED <<bibliography, bibliography_text, report_vars, parse_vars, runs_vars, summary_vars, count_vars, attempt_vars>>

\* Variant: the rendering empties the list it has rendered
GetFinalBibliography_Consuming ==
    /\ pc = "idle"
    /\ bibliography' = GetFinalBibliographyOf(global_refs)
    /\ bibliography_text' = BibliographyText(bibliography')
    /\ global_refs' = <<>>
    /\ pc' = "rendered"
    /\ UNCHANGED <<url_map, next_id, content, chapter_refs, local_to_global, new_content,
                   hist_vars, report_vars, parse_vars, runs_vars, summary_vars, count_vars, attempt_vars>>

GetFinalBibliography ==
    /\ pc = "idle"
    /\ bibliography' = GetFinalBibliographyOf(global_refs)
    /\ bibliography_text' = BibliographyText(bibliography')
    /\ pc' = "rendered"
    /\ UNCHANGED <<mgr_vars, content, chapter_refs, local_to_global, new_content, hist_vars,
                   report_vars, parse_vars, runs_vars, summary_vars, count_vars, attempt_vars>>

\* get_ref_count: len(self.global_refs)
GetRefCountOf(refs) == Len(refs)

GetRefCount ==
    /\ pc = "idle"
    /\ ref_count' = GetRefCountOf(global_refs)
    /\ pc' = "counted"
    /\ UNCHANGED <<mgr_vars, content, chapter_refs, local_to_global, new_content,
                   bibliography, bibliography_text, hist_vars, report_vars, parse_vars,
                   runs_vars, summary_vars, attempt_vars>>

\* The caller takes the count
ReturnCount ==
    /\ pc = "counted"
    /\ pc' = "idle"
    /\ ref_count' = 0
    /\ UNCHANGED <<mgr_vars, content, chapter_refs, local_to_global, new_content,
                   bibliography, bibliography_text, hist_vars, report_vars, parse_vars,
                   runs_vars, summary_vars, attempt_vars>>

\* The caller takes the returned value; the frame of the call is gone, and
\* with it the local dict
Return ==
    /\ pc \in {"returned", "rendered"}
    /\ pc' = "idle"
    /\ content' = <<>>
    /\ chapter_refs' = <<>>
    /\ new_content' = <<>>
    /\ bibliography' = <<>>
    /\ bibliography_text' = ""
    /\ local_to_global' = EmptyMap
    /\ prev_mapping' = EmptyMap
    /\ UNCHANGED <<mgr_vars, first_seen, first_title, encountered, report_vars, parse_vars, runs_vars, summary_vars, count_vars, attempt_vars>>

\* The same return, with the dict of the finished call left where a later
\* call would find it if that call did not build its own
ReturnKeepingDict ==
    /\ pc \in {"returned", "rendered"}
    /\ pc' = "idle"
    /\ content' = <<>>
    /\ chapter_refs' = <<>>
    /\ new_content' = <<>>
    /\ bibliography' = <<>>
    /\ bibliography_text' = ""
    /\ prev_mapping' = EmptyMap
    /\ UNCHANGED <<mgr_vars, local_to_global, first_seen, first_title, encountered,
                   report_vars, parse_vars, runs_vars, summary_vars, count_vars, attempt_vars>>

Next == Call \/ CallOnText \/ ProcessChapterContent \/ GetFinalBibliography \/ Return

Spec == Init /\ [][Next]_vars

\* The caller passes a list whose tags need not be markers
CallWithFreeTags == CallWith(FreeBodies, FreeLists)

\* The caller passes a chapter that numbers its references from 1
CallWithNumberedTags == CallWith(NumberedBodies, NumberedLists)

NextTags ==
    \/ CallWithFreeTags
    \/ CallWithNumberedTags
    \/ ProcessChapterContent
    \/ GetFinalBibliography
    \/ GetRefCount
    \/ Return
    \/ ReturnCount

SpecTags == Init /\ [][NextTags]_vars

NextScoped ==
    CallScoped \/ ProcessChapterContent \/ GetFinalBibliography \/ ReturnKeepingDict

SpecScoped == Init /\ [][NextScoped]_vars

-----------------------------------------------------------------------------
(* Text functions of the chapter pipeline *)

Whitespace == {" ", "\n", "\t", "\r"}

\* str.strip()
RECURSIVE LStrip(_)
LStrip(s) == IF s # <<>> /\ Head(s) \in Whitespace THEN LStrip(Tail(s)) ELSE s

RECURSIVE RStrip(_)
RStrip(s) ==
    IF s # <<>> /\ s[Len(s)] \in Whitespace THEN RStrip(SubSeq(s, 1, Len(s) - 1)) ELSE s

Strip(s) == RStrip(LStrip(s))

\* Least index at which pat occurs in s, 0 when it does not occur
FindSub(s, pat) ==
    LET hits == {i \in 1..(Len(s) - Len(pat) + 1) : SubSeq(s, i, i + Len(pat) - 1) = pat}
    IN  IF hits = {} THEN 0 ELSE CHOOSE i \in hits : \A j \in hits : i <= j

\* str.split(ch) for a one-character separator
RECURSIVE SplitOn(_, _)
SplitOn(s, ch) ==
    LET i == FindSub(s, <<ch>>)
    IN  IF i = 0 THEN <<s>>
        ELSE <<SubSeq(s, 1, i - 1)>> \o SplitOn(SubSeq(s, i + 1, Len(s)), ch)

\* sep.join(parts)
RECURSIVE Join(_, _)
Join(parts, sep) ==
    IF parts = <<>> THEN <<>>
    ELSE IF Len(parts) = 1 THEN parts[1]
    ELSE parts[1] \o sep \o Join(Tail(parts), sep)

\* s[:n]
Take(s, n) == SubSeq(s, 1, IF n < Len(s) THEN n ELSE Len(s))

Separator == <<"-", "-", "-", "R", "E", "F", "S", "-", "-", "-">>

\* parse_chapter_output(raw_output)[0]: the text before the first separator,
\* or the whole text, stripped
ParseChapterOutputContent(raw_output) ==
    LET i == FindSub(raw_output, Separator)
    IN  IF i = 0 THEN Strip(raw_output)
        ELSE Strip(SubSeq(raw_output, 1, i - 1))

\* The loop of summarize_chapter over the lines from line k on
RECURSIVE SummaryLines(_, _, _, _, _)
SummaryLines(lines, k, summary_lines, current_length, max_length) ==
    IF k > Len(lines) THEN summary_lines
    ELSE LET line == Strip(lines[k])
         IN  IF line = <<>>
             THEN SummaryLines(lines, k + 1, summary_lines, current_length, max_length)
             ELSE IF current_length + Len(line) > max_length
             THEN summary_lines
             ELSE SummaryLines(lines, k + 1, Append(summary_lines, line),
                               current_length + Len(line), max_length)

\* summarize_chapter(content, max_length)
SummarizeChapter(text, max_length) ==
    Take(Join(SummaryLines(SplitOn(text, "\n"), 1, <<>>, 0, max_length), <<" ">>),
         max_length) \o <<".", ".", ".">>

\* max_length=150 at the call in generate_long_report
SummaryMaxLength == 150

-----------------------------------------------------------------------------
(* parse_chapter_output and extract_refs_from_text *)

\* The CJK label of pattern 1, a token per character (pinyin), and its colon
LinkWord == <<"Lian", "Jie", ":">>

\* The CJK title given to the references of pattern 2 (pinyin)
PlaceholderTitle == <<"Can", "Kao", "Lai", "Yuan">>

\* pat occurs in s at index i
IsAt(s, i, pat) ==
    i >= 1 /\ i + Len(pat) - 1 <= Len(s) /\ SubSeq(s, i, i + Len(pat) - 1) = pat

\* Length of the longest run from index i of characters of the class:
\* \s* is RunWithin(s, i, Whitespace)
RECURSIVE RunWithin(_, _, _)
RunWithin(s, i, class) ==
    IF i >= 1 /\ i <= Len(s) /\ s[i] \in class THEN 1 + RunWithin(s, i + 1, class) ELSE 0

\* The same for a negated class: [^,\n] is RunExcluding(s, i, {",", "\n"})
RECURSIVE RunExcluding(_, _, _)
RunExcluding(s, i, class) ==
    IF i >= 1 /\ i <= Len(s) /\ s[i] \notin class
    THEN 1 + RunExcluding(s, i + 1, class) ELSE 0

\* https?://[^\s\n]+ at index k: index of the last character matched, 0 when
\* there is no match at k
UrlEnd(s, k) ==
    LET scheme == IF IsAt(s, k, <<"h", "t", "t", "p", "s", ":", "/", "/">>) THEN 8
                  ELSE IF IsAt(s, k, <<"h", "t", "t", "p", ":", "/", "/">>) THEN 7
                  ELSE 0
        n == RunExcluding(s, k + scheme, Whitespace)
    IN  IF scheme = 0 \/ n = 0 THEN 0 ELSE k + scheme + n - 1

\* ,?\s*<link label>:\s* at index j: index at which the URL has to start,
\* 0 when there is no match at j
LinkLabelEnd(s, j) ==
    LET j1 == IF j >= 1 /\ j <= Len(s) /\ s[j] = "," THEN j + 1 ELSE j
        j2 == j1 + RunWithin(s, j1, Whitespace)
    IN  IF IsAt(s, j2, LinkWord)
        THEN j2 + Len(LinkWord) + RunWithin(s, j2 + Len(LinkWord), Whitespace)
        ELSE 0

\* The ways pattern1 matches at index i: <<w, t>> is the length of the first
\* \s* and of the title group ([^,\n]+)
Pattern1Ways(s, i) ==
    LET a == MatchEnd(s, i) + 1
    IN  IF MatchEnd(s, i) = 0 THEN {}
        ELSE {c \in (0..RunWithin(s, a, Whitespace)) \X (1..Len(s)) :
                 /\ c[2] <= RunExcluding(s, a + c[1], {",", "\n"})
                 /\ LinkLabelEnd(s, a + c[1] + c[2]) > 0
                 /\ UrlEnd(s, LinkLabelEnd(s, a + c[1] + c[2])) > 0}

\* The match of pattern1 at index i, the way a backtracking matcher finds it:
\* the greedy \s* gives back last, the greedy title group first.
\* The value is <<>> when there is no match, else <<[end, ref]>>.
Pattern1At(s, i) ==
    LET ways == Pattern1Ways(s, i)
    IN  IF ways = {} THEN <<>>
        ELSE LET c == CHOOSE x \in ways :
                         \A y \in ways : x[1] > y[1] \/ (x[1] = y[1] /\ x[2] >= y[2])
                 a == MatchEnd(s, i) + 1
                 u == LinkLabelEnd(s, a + c[1] + c[2])
             IN  <<[end |-> UrlEnd(s, u),
                    ref |-> [id    |-> SubSeq(s, i, MatchEnd(s, i)),
                             title |-> Strip(SubSeq(s, a + c[1], a + c[1] + c[2] - 1)),
                             url   |-> Strip(SubSeq(s, u, UrlEnd(s, u)))]]>>

\* The match of pattern2 at index i, in the same form
Pattern2At(s, i) ==
    LET a == MatchEnd(s, i) + 1
        u == a + RunWithin(s, a, Whitespace)
    IN  IF MatchEnd(s, i) = 0 \/ UrlEnd(s, u) = 0 THEN <<>>
        ELSE <<[end |-> UrlEnd(s, u),
                ref |-> [id    |-> SubSeq(s, i, MatchEnd(s, i)),
                         title |-> PlaceholderTitle,
                         url   |-> Strip(SubSeq(s, u, UrlEnd(s, u)))]]>>

\* re.finditer: the leftmost matches from index i on, none overlapping
RECURSIVE FindIter1(_, _)
FindIter1(s, i) ==
    IF i > Len(s) THEN <<>>
    ELSE LET m == Pattern1At(s, i)
         IN  IF m = <<>> THEN FindIter1(s, i + 1)
             ELSE <<m[1].ref>> \o FindIter1(s, m[1].end + 1)

RECURSIVE FindIter2(_, _)
FindIter2(s, i) ==
    IF i > Len(s) THEN <<>>
    ELSE LET m == Pattern2At(s, i)
         IN  IF m = <<>> THEN FindIter2(s, i + 1)
             ELSE <<m[1].ref>> \o FindIter2(s, m[1].end + 1)

\* Variant: the matches of pattern 2 are added whatever pattern 1 found
ExtractRefsFromText_Both(text) == FindIter1(text, 1) \o FindIter2(text, 1)

\* extract_refs_from_text(text)
ExtractRefsFromText(text) ==
    LET refs == FindIter1(text, 1)
    IN  IF refs = <<>> THEN FindIter2(text, 1) ELSE refs

\* Variant: the fields are taken as they stand between the bars
RefEntry_Untrimmed(segments) ==
    [id |-> segments[1], url |-> segments[2], title |-> segments[3]]

\* The dict appended for a line of at least three segments
RefEntry(segments) ==
    [id |-> Strip(segments[1]), url |-> Strip(segments[2]), title |-> Strip(segments[3])]

\* Variant: the three segments are read without the test of their number
\* and outside the try block, so a line of two segments raises IndexError
LineRefs_Unguarded(line) ==
    IF Len(SplitOn(line, "|")) >= 3
    THEN [raised |-> FALSE, refs |-> <<RefEntry(SplitOn(line, "|"))>>]
    ELSE [raised |-> TRUE, refs |-> <<>>]

\* The try block of one line that holds a bar: the dict of the line when it
\* has at least three segments, nothing otherwise; nothing in the block
\* raises, and what would is caught and the line skipped
LineRefs(line) ==
    IF Len(SplitOn(line, "|")) >= 3
    THEN [raised |-> FALSE, refs |-> <<RefEntry(SplitOn(line, "|"))>>]
    ELSE [raised |-> FALSE, refs |-> <<>>]

\* The loop of parse_chapter_output over the lines of refs_part from line k on
RECURSIVE RefsPartLines(_, _, _)
RefsPartLines(lines, k, refs_list) ==
    IF k > Len(lines) THEN refs_list
    ELSE LET line == Strip(lines[k])
         IN  IF line = <<>> \/ FindSub(line, <<"|">>) = 0
             THEN RefsPartLines(lines, k + 1, refs_list)
             ELSE RefsPartLines(lines, k + 1, refs_list \o LineRefs(line).refs)

\* An exception leaves the loop over the lines of refs_part
RefsPartRaises(lines) ==
    \E k \in 1..Len(lines) :
        /\ Strip(lines[k]) # <<>>
        /\ FindSub(Strip(lines[k]), <<"|">>) > 0
        /\ LineRefs(Strip(lines[k])).raised

\* parse_chapter_output(raw_output)[1]
ParseChapterOutputRefs(raw_output) ==
    LET i == FindSub(raw_output, Separator)
    IN  IF i = 0 THEN ExtractRefsFromText(raw_output)
        ELSE RefsPartLines(
                 SplitOn(Strip(SubSeq(raw_output, i + Len(Separator), Len(raw_output))), "\n"),
                 1, <<>>)

\* parse_chapter_output(raw_output)
ParseChapterOutput(raw) ==
    [content |-> ParseChapterOutputContent(raw), refs |-> ParseChapterOutputRefs(raw)]

\* An exception leaves parse_chapter_output(raw_output): the operations on
\* the string (in, strip, split, re.finditer) take every string; what is left
\* is the loop over the lines
ParseChapterOutputRaises(raw) ==
    /\ FindSub(raw, Separator) > 0
    /\ RefsPartRaises(SplitOn(Strip(SubSeq(raw, FindSub(raw, Separator) + Len(Separator),
                                           Len(raw))), "\n"))

\* Raw outputs that follow the separator format, more or less: pieces of body,
\* blank space, bars, separators, and lines of 3, 2 and 4 fields and a blank
\* line, each with the line break that starts it
FormatPieces ==
    { <<"B">>, <<" ">>, <<"|">>, Separator, <<"\n", " ">>,
      <<"\n">> \o FormatRef(1) \o <<" ", "|", " ", "u", " ", "|", " ", "T">>,
      <<"\n", "x", "|", "y">>,
      <<"\n", " ", "a", "|", "b", " ", "|", "c", "|", "d">> }

FormattedOutputs == {Flatten(ps) : ps \in SeqsUpTo(FormatPieces, MaxBlocks)}

\* Raw outputs without the separator: a whole entry of pattern 1 and the
\* fragments the entries of both patterns are made of
TextPieces ==
    { FormatRef(1) \o <<" ", "T", ",", " ">> \o LinkWord
                   \o <<" ", "h", "t", "t", "p", "s", ":", "/", "/", "a">>,
      FormatRef(3), <<" ">>, <<"T">>, <<",">>, <<"\n">>, LinkWord,
      <<"h", "t", "t", "p", ":", "/", "/", "c">> }

FreeTextOutputs == {Flatten(ps) : ps \in SeqsUpTo(TextPieces, MaxWords)}

\* The model hands over a raw output
ReceiveFrom(outputs) ==
    /\ ppc = "idle"
    /\ \E raw \in outputs : raw_text' = raw
    /\ ppc' = "received"
    /\ UNCHANGED <<mgr_vars, call_vars, hist_vars, report_vars, parsed, runs_vars, summary_vars, count_vars, attempt_vars>>

ReceiveFormatted == ReceiveFrom(FormattedOutputs)

ReceiveFreeText == ReceiveFrom(FreeTextOutputs)

\* parse_chapter_output(raw_output) returns its pair, or is left by an
\* exception
ParseChapterOutputCall ==
    /\ ppc = "received"
    /\ IF ParseChapterOutputRaises(raw_text)
       THEN /\ parsed' = [content |-> <<>>, refs |-> <<>>]
            /\ ppc' = "raised"
       ELSE /\ parsed' = ParseChapterOutput(raw_text)
            /\ ppc' = "parsed"
    /\ UNCHANGED <<mgr_vars, call_vars, hist_vars, report_vars, raw_text, runs_vars, summary_vars, count_vars, attempt_vars>>

\* The caller takes the pair; the frame of the call is gone
ReturnParsed ==
    /\ ppc = "parsed"
    /\ ppc' = "idle"
    /\ raw_text' = <<>>
    /\ parsed' = [content |-> <<>>, refs |-> <<>>]
    /\ UNCHANGED <<mgr_vars, call_vars, hist_vars, report_vars, runs_vars, summary_vars, count_vars, attempt_vars>>

NextParse == ReceiveFormatted \/ ReceiveFreeText \/ ParseChapterOutputCall \/ ReturnParsed

SpecParse == Init /\ [][NextParse]_vars

-----------------------------------------------------------------------------
(* generate_single_chapter *)

\* The text of the exception stands for itself
LlmError == "error"
ErrorMsg == <<"f", "a", "i", "l", "e", "d", ":", " ", "e">>

\* Variant: enumerate(search_data['raw_data']) without the start value
AuthoritativeRefs_FromZero(raw_data) ==
    [i \in 1..Len(raw_data) |-> [id    |-> FormatRef(i - 1),
                                 url   |-> raw_data[i].url,
                                 title |-> raw_data[i].title]]

\* refs built from search_data['raw_data'], tagged in list order
AuthoritativeRefs(raw_data) ==
    [i \in 1..Len(raw_data) |-> [id    |-> FormatRef(i),
                                 url   |-> raw_data[i].url,
                                 title |-> raw_data[i].title]]

\* Variant: the references of the search are returned with the failure text
GenerateSingleChapter_KeepsRefs(raw_data, outcome) ==
    IF outcome = <<LlmError>>
    THEN [content |-> ErrorMsg, refs |-> AuthoritativeRefs(raw_data)]
    ELSE [content |-> ParseChapterOutputContent(Strip(outcome)),
          refs    |-> AuthoritativeRefs(raw_data)]

\* The pair (content, refs) that generate_single_chapter returns when the
\* search gave raw_data and the completion call gave `outcome`: a text
\* (a sequence of characters), or LlmError when it raised.
GenerateSingleChapter(raw_data, outcome) ==
    IF outcome = <<LlmError>>
    THEN [content |-> ErrorMsg, refs |-> <<>>]
    ELSE [content |-> ParseChapterOutputContent(Strip(outcome)),
          refs    |-> AuthoritativeRefs(raw_data)]

-----------------------------------------------------------------------------
(* generate_long_report *)

ChapterTitle(i) == "Chapter " \o ToString(i)

Outlines == {[i \in 1..n |-> [title |-> ChapterTitle(i), focus |-> "focus"]] :
                n \in 0..MaxChapters}

\* search_data['search_source']: a provider that returned results, "none"
\* when no provider found anything, "error" when the search failed
SearchSources(raw_data) == IF raw_data = <<>> THEN {"none", "error"} ELSE {"web"}

\* The lines of the log that tell how a chapter went
LogLine(chapter, line) == [chapter |-> chapter, line |-> line]

\* What the search returns: items of raw_data, in relevance order
NoUrlItem == [url |-> "", title |-> "A"]
ItemA     == [url |-> "https://a.com", title |-> "A"]
ItemB     == [url |-> "https://b.com", title |-> "B"]
SearchResults == {<<>>, <<ItemA>>, <<ItemB>>, <<ItemA, ItemB>>, <<ItemB, ItemA>>,
                  <<NoUrlItem, ItemA>>}

\* What the completion call returns: a body that cites sources, framed by
\* white space, alone or followed by a reference block of its own
OwnRefsBlock == <<"\n">> \o Separator \o <<"\n">> \o FormatRef(1) \o <<" ", "|", " ", "h", "t", "t", "p", "s", ":", "/", "/", "f", "a", "k", "e", ".", "c", "o", "m", " ", "|", " ", "F">>
GeneratedBodies == {FormatRef(1), FormatRef(2), <<"x", " ">> \o FormatRef(1) \o FormatRef(2),
                    FormatRef(2) \o FormatRef(3)}
RawOutputs == {<<" ">> \o b \o <<"\n">> : b \in GeneratedBodies}
                 \cup {FormatRef(1) \o FormatRef(2) \o OwnRefsBlock}

\* The pieces that full_report is made of
HeaderPiece == [kind |-> "header", title |-> "", body |-> <<>>]
ChapterPiece(title, body) == [kind |-> "chapter", title |-> title, body |-> body]
FailedPiece(title) == [kind |-> "failed", title |-> title, body |-> <<>>]
BibliographyPiece(text) == [kind |-> "bibliography", title |-> "", body |-> text]

\* previous_summaries[-2:]
LastTwo(seq) == SubSeq(seq, IF Len(seq) > 2 THEN Len(seq) - 1 ELSE 1, Len(seq))

\* ref_manager = GlobalReferenceManager(); the outline comes back; the
\* report starts with its header
GenerateOutlineOf(outlines) ==
    /\ rpc = "outline"
    /\ \E o \in outlines : outline' = o
    /\ full_report' = <<HeaderPiece>>
    /\ previous_summaries' = <<>>
    /\ index' = 0
    /\ rpc' = "chapter"
    /\ url_map' = EmptyMap
    /\ next_id' = 1
    /\ global_refs' = <<>>
    /\ first_seen' = <<>>
    /\ first_title' = EmptyMap
    /\ encountered' = {}
    /\ UNCHANGED <<call_vars, prev_mapping, previous_context, search_data, searched,
                   chapter_log, search_source, log_stream, ended_at, parse_vars, runs_vars, summary_vars, count_vars, attempt_vars>>

GenerateOutline == GenerateOutlineOf(Outlines)

\* The loop enters chapter `index`, builds previous_context, calls
\* generate_single_chapter, and the search of that chapter returns
PreSearchWith(results) ==
    /\ rpc = "chapter"
    /\ index < Len(outline)
    /\ previous_context' = LastTwo(previous_summaries)
    /\ \E raw_data \in results :
          /\ search_data' = raw_data
          /\ searched' = searched \cup {raw_data[i].url : i \in 1..Len(raw_data)}
          /\ \E source \in SearchSources(raw_data) : search_source' = source
    /\ log_stream' = Append(log_stream, LogLine(index + 1, "started"))
    /\ rpc' = "searched"
    /\ attempts' = Append(attempts, [chapter |-> index + 1, call |-> "search"])
    /\ UNCHANGED <<mgr_vars, call_vars, hist_vars, outline, index, full_report,
                   previous_summaries, chapter_log, ended_at, parse_vars, runs_vars, summary_vars, count_vars>>

PreSearch == PreSearchWith(SearchResults)

\* The completion call returns or raises; generate_single_chapter returns
\* (chapter_content, chapter_refs); the chapter is processed, added to the
\* report and summarized
GenerateChapterWith(outcomes) ==
    /\ rpc = "searched"
    /\ \E outcome \in outcomes :
          LET gen   == GenerateSingleChapter(search_data, outcome)
              title == outline[index + 1].title
          IN  /\ ProcessChapterContentOn(gen.content, gen.refs)
              /\ full_report' = Append(full_report, ChapterPiece(title, new_content'))
              /\ previous_summaries' =
                    Append(previous_summaries,
                           [title   |-> title,
                            summary |-> SummarizeChapter(gen.content, SummaryMaxLength)])
              /\ chapter_log' = Append(chapter_log,
                                       [piece    |-> Len(full_report) + 1,
                                        chapter  |-> index + 1,
                                        source   |-> search_source,
                                        raw_data |-> search_data,
                                        outcome  |-> outcome,
                                        failed   |-> outcome = <<LlmError>>,
                                        content  |-> gen.content,
                                        refs     |-> gen.refs])
              /\ log_stream' = IF outcome = <<LlmError>>
                               THEN Append(log_stream,
                                           LogLine(index + 1, "generation failed"))
                               ELSE log_stream
    /\ rpc' = "logging"
    /\ attempts' = Append(attempts, [chapter |-> index + 1, call |-> "completion"])
    /\ UNCHANGED <<pc, bibliography, bibliography_text, outline, index, previous_context,
                   search_data, searched, search_source, ended_at, parse_vars, runs_vars, summary_vars, count_vars>>

GenerateChapter == GenerateChapterWith(RawOutputs \cup {<<LlmError>>})

\* Variant: the loop does not move on to the next chapter
ChapterDone_SameChapter ==
    /\ rpc = "logging"
    /\ index' = index
    /\ log_stream' = Append(log_stream, LogLine(index + 1, "done"))
    /\ rpc' = "chapter"
    /\ UNCHANGED <<mgr_vars, call_vars, hist_vars, outline, previous_context, search_data,
                   full_report, previous_summaries, searched, chapter_log, search_source,
                   ended_at, parse_vars, runs_vars, summary_vars, count_vars, attempt_vars>>

\* The closing log line of the chapter is written; next chapter
ChapterDone ==
    /\ rpc = "logging"
    /\ index' = index + 1
    /\ log_stream' = Append(log_stream, LogLine(index + 1, "done"))
    /\ rpc' = "chapter"
    /\ UNCHANGED <<mgr_vars, call_vars, hist_vars, outline, previous_context, search_data,
                   full_report, previous_summaries, searched, chapter_log, search_source,
                   ended_at, parse_vars, runs_vars, summary_vars, count_vars, attempt_vars>>

\* Variant: the except block adds nothing to the report
ChapterRaises_Silent ==
    /\ \/ rpc = "chapter" /\ index < Len(outline)
       \/ rpc \in {"searched", "logging"}
    /\ log_stream' = Append(log_stream, LogLine(index + 1, "failed"))
    /\ index' = index + 1
    /\ rpc' = "chapter"
    /\ UNCHANGED <<mgr_vars, call_vars, hist_vars, outline, previous_context, search_data,
                   full_report, previous_summaries, searched, chapter_log, search_source,
                   ended_at, parse_vars, runs_vars, summary_vars, count_vars, attempt_vars>>

\* Variant: a chapter that failed is tried once more
ChapterRaises_TriesAgain ==
    /\ \/ rpc = "chapter" /\ index < Len(outline)
       \/ rpc \in {"searched", "logging"}
    /\ full_report' = Append(full_report, FailedPiece(outline[index + 1].title))
    /\ log_stream' = Append(log_stream, LogLine(index + 1, "failed"))
    /\ index' = IF \E k \in 1..Len(log_stream) : log_stream[k] = LogLine(index + 1, "failed")
                THEN index + 1 ELSE index
    /\ rpc' = "chapter"
    /\ UNCHANGED <<mgr_vars, call_vars, hist_vars, outline, previous_context, search_data,
                   previous_summaries, searched, chapter_log, search_source, ended_at,
                   parse_vars, runs_vars, summary_vars, count_vars, attempt_vars>>

\* Something inside the try block raises out of generate_single_chapter or
\* out of a log call: the except block adds the failure piece; next chapter
ChapterRaises ==
    /\ \/ rpc = "chapter" /\ index < Len(outline)
       \/ rpc \in {"searched", "logging"}
    /\ full_report' = Append(full_report, FailedPiece(outline[index + 1].title))
    /\ log_stream' = Append(log_stream, LogLine(index + 1, "failed"))
    /\ index' = index + 1
    /\ rpc' = "chapter"
    /\ UNCHANGED <<mgr_vars, call_vars, hist_vars, outline, previous_context, search_data,
                   previous_summaries, searched, chapter_log, search_source, ended_at, parse_vars, runs_vars, summary_vars, count_vars, attempt_vars>>

\* After the loop: full_report += ref_manager.get_final_bibliography()
FinishReport ==
    /\ rpc = "chapter"
    /\ index = Len(outline)
    /\ bibliography' = GetFinalBibliographyOf(global_refs)
    /\ bibliography_text' = BibliographyText(bibliography')
    /\ full_report' = IF bibliography_text' = "" THEN full_report
                      ELSE Append(full_report, BibliographyPiece(bibliography_text'))
    /\ rpc' = "done"
    /\ UNCHANGED <<mgr_vars, pc, content, chapter_refs, local_to_global, new_content,
                   hist_vars, outline, index, previous_context, search_data,
                   previous_summaries, searched, chapter_log, search_source, log_stream,
                   ended_at, parse_vars, runs_vars, summary_vars, count_vars, attempt_vars>>

\* The positions at which generate_long_report is waiting on an await
Running == {"outline", "chapter", "searched", "logging"}

\* generate_long_report is left without a return value: its locals, the
\* reference manager and the report among them, are gone with its frame, and
\* so is the history kept of them.  The log stream is the caller's.  What is
\* recorded is where the run was and how many chapters it had completed.
LeftAs(how) ==
    /\ rpc \in Running
    /\ ended_at' = [at |-> rpc,
                    completed |-> Cardinality({k \in 1..Len(chapter_log) :
                                                 ~chapter_log[k].failed})]
    /\ rpc' = how
    /\ url_map' = EmptyMap
    /\ next_id' = 1
    /\ global_refs' = <<>>
    /\ pc' = "idle"
    /\ content' = <<>>
    /\ chapter_refs' = <<>>
    /\ local_to_global' = EmptyMap
    /\ new_content' = <<>>
    /\ bibliography' = <<>>
    /\ bibliography_text' = ""
    /\ prev_mapping' = EmptyMap
    /\ first_seen' = <<>>
    /\ first_title' = EmptyMap
    /\ encountered' = {}
    /\ outline' = <<>>
    /\ index' = 0
    /\ previous_context' = <<>>
    /\ search_data' = <<>>
    /\ full_report' = <<>>
    /\ previous_summaries' = <<>>
    /\ searched' = {}
    /\ chapter_log' = <<>>
    /\ search_source' = "none"
    /\ attempts' = <<>>
    /\ UNCHANGED <<log_stream, parse_vars, runs_vars, summary_vars, count_vars>>

\* An exception leaves generate_long_report: a log call outside the try
\* block raises (before the loop, at the head of a chapter, after the loop),
\* or one inside the try block does and the log call of the except block
\* raises as well.  The caller's except block takes over.
ReportRaises == LeftAs("raised")

\* The user stops the task: the task that runs generate_long_report is
\* cancelled at the await it is waiting on, and on_stop sends its message.
\* generate_long_report holds no check of its own.
OnStop == LeftAs("stopped")

NextReport ==
    \/ GenerateOutline
    \/ PreSearch
    \/ GenerateChapter
    \/ ChapterDone
    \/ ChapterRaises
    \/ FinishReport
    \/ ReportRaises
    \/ OnStop

SpecReport == Init /\ [][NextReport]_vars

\* Runs over longer outlines, with one search result and two outcomes of the
\* completion call: a body that cites the result, and a failure
LongOutlines == {[i \in 1..n |-> [title |-> ChapterTitle(i), focus |-> "focus"]] :
                    n \in 0..MaxLoopChapters}
LoopSearchResults == {<<ItemA>>}
LoopOutcomes == {<<" ">> \o FormatRef(1) \o <<"\n">>, <<LlmError>>}

NextLoop ==
    \/ GenerateOutlineOf(LongOutlines)
    \/ PreSearchWith(LoopSearchResults)
    \/ GenerateChapterWith(LoopOutcomes)
    \/ ChapterDone
    \/ ChapterRaises
    \/ FinishReport
    \/ ReportRaises
    \/ OnStop

SpecLoop == Init /\ [][NextLoop]_vars

\* Every call that the run waits on returns or raises, so the run takes its
\* next step
SpecLoopFair == Init /\ [][NextLoop]_vars /\ WF_vars(NextLoop)

-----------------------------------------------------------------------------
(* summarize_chapter called on its own *)

\* Chapter texts: lines of one and of three characters, blanks, line breaks
SummaryPieces == { <<"a">>, <<"b", "c", "d">>, <<" ">>, <<"\n">> }

SummaryTexts == {Flatten(ps) : ps \in SeqsUpTo(SummaryPieces, MaxTextPieces)}

\* The model hands over (content, max_length)
CallSummarize ==
    /\ spc = "idle"
    /\ \E text \in SummaryTexts, n \in 1..MaxSummary :
          /\ summary_content' = text
          /\ summary_max_length' = n
    /\ spc' = "called"
    /\ UNCHANGED <<mgr_vars, call_vars, hist_vars, report_vars, parse_vars, runs_vars,
                   chapter_summary, count_vars, attempt_vars>>

\* summarize_chapter(content, max_length)
SummarizeChapterCall ==
    /\ spc = "called"
    /\ chapter_summary' = SummarizeChapter(summary_content, summary_max_length)
    /\ spc' = "summarized"
    /\ UNCHANGED <<mgr_vars, call_vars, hist_vars, report_vars, parse_vars, runs_vars,
                   summary_content, summary_max_length, count_vars, attempt_vars>>

\* The caller takes the summary; the frame of the call is gone
ReturnSummary ==
    /\ spc = "summarized"
    /\ spc' = "idle"
    /\ summary_content' = <<>>
    /\ summary_max_length' = 0
    /\ chapter_summary' = <<>>
    /\ UNCHANGED <<mgr_vars, call_vars, hist_vars, report_vars, parse_vars, runs_vars, count_vars, attempt_vars>>

NextSummary == CallSummarize \/ SummarizeChapterCall \/ ReturnSummary

SpecSummary == Init /\ [][NextSummary]_vars

-----------------------------------------------------------------------------
(* Several runs of generate_long_report on one event loop *)

\* What a run passes to process_chapter_content for a chapter: a body that
\* cites both tags, and a list over the same two URLs in either order, the
\* title of the first URL varying
RunEntry(tag, url, title) == [id |-> tag, url |-> url, title |-> title]

RunLists ==
    { <<RunEntry(FormatRef(1), "https://a.com", "A")>>,
      <<RunEntry(FormatRef(1), "https://a.com", "B")>>,
      <<RunEntry(FormatRef(1), "https://b.com", "B")>>,
      <<RunEntry(FormatRef(1), "https://a.com", "A"),
        RunEntry(FormatRef(10), "https://b.com", "B")>>,
      <<RunEntry(FormatRef(1), "https://b.com", "B"),
        RunEntry(FormatRef(10), "https://a.com", "A")>> }

RunBody == FormatRef(1) \o <<" ">> \o FormatRef(10)

\* Variant: the manager is one object of the module, every run uses it
ManagerOf_Shared(run) == "a"

\* ref_manager = GlobalReferenceManager(): the object is local to the call
\* of generate_long_report, and its three attributes are set in __init__
ManagerOf(run) == run

\* One call process_chapter_content(c, refs) on a manager: the manager it
\* leaves, the mapping it built and the body it returns
CallOn(manager, c, refs) ==
    LET st == ProcessRefs([url_map |-> manager.url_map,
                           next_id |-> manager.next_id,
                           global_refs |-> manager.global_refs,
                           local_to_global |-> InitialMapping(EmptyMap)], refs)
    IN  [manager |-> [url_map |-> st.url_map, next_id |-> st.next_id,
                      global_refs |-> st.global_refs],
         mapping |-> st.local_to_global,
         new_content |-> ReSub(st.local_to_global, c)]

\* A run starts: ref_manager = GlobalReferenceManager()
StartRun(run) ==
    /\ run_pc[run] = "new"
    /\ managers' = [managers EXCEPT ![ManagerOf(run)] = FreshManager]
    /\ run_pc' = [run_pc EXCEPT ![run] = "running"]
    /\ UNCHANGED <<mgr_vars, call_vars, hist_vars, report_vars, parse_vars,
                   run_chapters, run_bibliography, summary_vars, count_vars, attempt_vars>>

\* A run processes its next chapter; the call holds no await, so no other
\* run comes in between
RunChapter(run) ==
    /\ run_pc[run] = "running"
    /\ Len(run_chapters[run]) < MaxChapters
    /\ \E refs \in RunLists :
          LET call == CallOn(managers[ManagerOf(run)], RunBody, refs)
          IN  /\ managers' = [managers EXCEPT ![ManagerOf(run)] = call.manager]
              /\ run_chapters' =
                    [run_chapters EXCEPT ![run] =
                        Append(@, [content |-> RunBody, refs |-> refs,
                                   mapping |-> call.mapping,
                                   new_content |-> call.new_content])]
    /\ UNCHANGED <<mgr_vars, call_vars, hist_vars, report_vars, parse_vars,
                   run_pc, run_bibliography, summary_vars, count_vars, attempt_vars>>

\* A run is through its chapters: bibliography = ref_manager.get_final_bibliography()
FinishRun(run) ==
    /\ run_pc[run] = "running"
    /\ run_bibliography' =
          [run_bibliography EXCEPT ![run] =
              BibliographyText(GetFinalBibliographyOf(
                                   managers[ManagerOf(run)].global_refs))]
    /\ run_pc' = [run_pc EXCEPT ![run] = "done"]
    /\ UNCHANGED <<mgr_vars, call_vars, hist_vars, report_vars, parse_vars,
                   managers, run_chapters, summary_vars, count_vars, attempt_vars>>

NextRuns == \E run \in Runs : StartRun(run) \/ RunChapter(run) \/ FinishRun(run)

SpecRuns == Init /\ [][NextRuns]_vars

-----------------------------------------------------------------------------
(* Vocabulary of the properties *)

\* A step that is one whole process_chapter_content call
CallStep == pc = "called" /\ pc' = "returned"

\* The URL of entry j was registered when the loop reached entry j
RegisteredBefore(j) ==
    \/ chapter_refs[j].url \in DOMAIN url_map
    \/ \E i \in 1..(j - 1) : /\ Accepted(chapter_refs[i])
                             /\ chapter_refs[i].url = chapter_refs[j].url

\* No later accepted entry of the list carries the tag of entry j
LastBinding(j) ==
    \A i \in (j + 1)..Len(chapter_refs) :
        ~(Accepted(chapter_refs[i]) /\ chapter_refs[i].id = chapter_refs[j].id)

\* Start positions of the citation markers of a text, and their tags
Markers(s) == {i \in 1..Len(s) : MatchEnd(s, i) > 0}
MarkerTag(s, i) == SubSeq(s, i, MatchEnd(s, i))
InMarker(s, i) == \E m \in Markers(s) : m <= i /\ i <= MatchEnd(s, m)

\* By how much the text before position i grows when every marker before i
\* is replaced by what the mapping holds for it
RECURSIVE Shift(_, _, _)
Shift(s, mapping, i) ==
    IF i <= 1 THEN 0
    ELSE Shift(s, mapping, i - 1) +
         (IF MatchEnd(s, i - 1) > 0
          THEN Len(MapGet(mapping, MarkerTag(s, i - 1), MarkerTag(s, i - 1)))
               - Len(MarkerTag(s, i - 1))
          ELSE 0)

\* The text `out`, rewritten from `s` under `mapping`, reads `text` at the
\* place of position i of s
ReadsAt(s, mapping, out, i, text) ==
    LET p == i + Shift(s, mapping, i)
    IN  /\ p + Len(text) - 1 <= Len(out)
        /\ SubSeq(out, p, p + Len(text) - 1) = text

Occurrences(refs, u) == {k \in 1..Len(refs) : refs[k].url = u}

-----------------------------------------------------------------------------
(* C1 *)

\* The reference of an already registered URL is not created again and
\* keeps the title of the first accepted occurrence.
C1_NotRecreated(j) ==
    LET u == chapter_refs[j].url
    IN  /\ Cardinality(Occurrences(global_refs', u)) = 1
        /\ u \in DOMAIN url_map =>
              /\ url_map'[u] = url_map[u]
              /\ global_refs'[url_map[u]] = global_refs[url_map[u]]
        /\ \A k \in Occurrences(global_refs', u) :
              /\ global_refs'[k].title = first_title'[u]
              /\ global_refs'[k].id = url_map'[u]

\* The tag of entry j is mapped to the ID of its URL, and the markers of
\* the body that carry this tag are rewritten to that ID.
C1_TagResolves(j) ==
    LET tag == chapter_refs[j].id
        ref == FormatRef(url_map'[chapter_refs[j].url])
    IN  /\ tag \in DOMAIN local_to_global'
        /\ local_to_global'[tag] = ref
        /\ \A i \in Markers(content) :
              MarkerTag(content, i) = tag =>
                  ReadsAt(content, local_to_global', new_content', i, ref)

\* C1 as stated: in every process_chapter_content call, every local
\* reference whose URL is already registered creates no new global
\* reference, leaves the first-seen title in place, and has its local tag
\* mapped to the already assigned global ID, so that its markers are
\* rewritten to that ID.
C1_AsStated ==
    [][CallStep =>
         \A j \in 1..Len(chapter_refs) :
            (Accepted(chapter_refs[j]) /\ RegisteredBefore(j)) =>
                C1_NotRecreated(j) /\ C1_TagResolves(j)]_vars

\* C1 (amended): in every process_chapter_content call, every local
\* reference with a non-empty tag whose URL is already registered creates
\* no new global reference and leaves the first-seen title in place; its
\* local tag is mapped to the already assigned global ID, and its markers
\* are rewritten to that ID, when no later accepted entry of the same list
\* carries the same tag (the last accepted entry of a tag wins).
C1_Dedup ==
    [][CallStep =>
         \A j \in 1..Len(chapter_refs) :
            (Accepted(chapter_refs[j]) /\ RegisteredBefore(j)) =>
                /\ C1_NotRecreated(j)
                /\ LastBinding(j) => C1_TagResolves(j)]_vars

\* A call has returned in which a registered URL came back under another
\* title, and a marker of the body was rewritten to its ID.
C1_Witness ==
    /\ pc = "returned"
    /\ \E j \in 1..Len(chapter_refs) :
          /\ Accepted(chapter_refs[j]) /\ LastBinding(j)
          /\ chapter_refs[j].title # first_title[chapter_refs[j].url]
          /\ \E i \in Markers(content) : MarkerTag(content, i) = chapter_refs[j].id
          /\ local_to_global[chapter_refs[j].id] = FormatRef(url_map[chapter_refs[j].url])

-----------------------------------------------------------------------------
(* C2 *)

IndexOf(seq, x) == CHOOSE k \in 1..Len(seq) : seq[k] = x

\* C2: the registered URLs are those that had an accepted occurrence; of two
\* registered URLs the one whose first accepted occurrence came first has
\* the smaller ID; and the IDs in use are exactly 1..n.
C2_FirstSeenOrder ==
    /\ DOMAIN url_map = Range(first_seen)
    /\ \A u, v \in DOMAIN url_map :
          url_map[u] < url_map[v] <=> IndexOf(first_seen, u) < IndexOf(first_seen, v)
    /\ {url_map[u] : u \in DOMAIN url_map} = 1..Cardinality(DOMAIN url_map)
    /\ {global_refs[k].id : k \in 1..Len(global_refs)} = 1..Cardinality(DOMAIN url_map)

\* Two URLs are registered, the second one by a later call than the first
C2_Witness ==
    /\ pc = "returned"
    /\ Len(first_seen) = 2
    /\ Len(chapter_refs) = 1
    /\ url_map[chapter_refs[1].url] = 2

-----------------------------------------------------------------------------
(* C4 *)

\* The entries of the rendered bibliography: their URLs and their markers
BibUrls(bib) == [k \in 1..(Len(bib) - 1) |-> bib[k + 1][6]]
BibMarkers(bib) == [k \in 1..(Len(bib) - 1) |-> bib[k + 1][2]]

\* C4 as stated: the rendered bibliography has exactly one entry for every
\* non-empty URL that any chapter's list contained, in assignment order.
C4_AsStated ==
    pc = "rendered" =>
        /\ \A u \in encountered :
              Cardinality({k \in DOMAIN BibUrls(bibliography) :
                              BibUrls(bibliography)[k] = u}) = 1
        /\ Range(BibUrls(bibliography)) \subseteq encountered
        /\ \A k \in DOMAIN BibMarkers(bibliography) :
              BibMarkers(bibliography)[k] = FormatRef(k)

\* C4 (amended): the rendered bibliography has exactly one entry for every
\* non-empty URL that some chapter's list carried under a non-empty local
\* tag, in the order of the first such occurrence; a URL that only ever
\* came without a tag has no entry.
C4_Bibliography ==
    pc = "rendered" =>
        /\ BibUrls(bibliography) = first_seen
        /\ \A k \in DOMAIN BibMarkers(bibliography) :
              BibMarkers(bibliography)[k] = FormatRef(k)

\* A bibliography of one entry has been rendered after two URLs came, one
\* of them only without a tag
C4_Witness ==
    /\ pc = "rendered"
    /\ Len(bibliography) = 2
    /\ Cardinality(encountered) = 2

-----------------------------------------------------------------------------
(* C5 *)

\* No reference with an empty URL is registered or rendered
NoEmptyUrlPromoted ==
    /\ "" \notin DOMAIN url_map
    /\ \A k \in 1..Len(global_refs) : global_refs[k].url # ""
    /\ "" \notin Range(BibUrls(bibliography))
    /\ Len(global_refs) = Len(first_seen)

\* C5 as stated: a local reference with an empty URL is never registered,
\* and the markers of the body that carry its tag are not rewritten by the
\* call.
C5_AsStated ==
    /\ NoEmptyUrlPromoted
    /\ pc = "returned" =>
          \A j \in 1..Len(chapter_refs) :
             chapter_refs[j].url = "" =>
                \A i \in Markers(content) :
                   MarkerTag(content, i) = chapter_refs[j].id =>
                      ReadsAt(content, local_to_global, new_content, i,
                              chapter_refs[j].id)

\* C5 (amended): a local reference with an empty URL is never registered,
\* and the markers of the body that carry its tag are not rewritten by the
\* call unless another entry of the same list carries the same tag with a
\* non-empty URL.
C5_EmptyUrlExcluded ==
    /\ NoEmptyUrlPromoted
    /\ pc = "returned" =>
          \A j \in 1..Len(chapter_refs) :
             (/\ chapter_refs[j].url = ""
              /\ \A i \in 1..Len(chapter_refs) :
                    Accepted(chapter_refs[i]) => chapter_refs[i].id # chapter_refs[j].id) =>
                \A i \in Markers(content) :
                   MarkerTag(content, i) = chapter_refs[j].id =>
                      ReadsAt(content, local_to_global, new_content, i,
                              chapter_refs[j].id)

\* A call has returned whose list held a tagged entry with an empty URL and
\* whose body cites that tag, next to an entry that was registered
C5_Witness ==
    /\ pc = "returned"
    /\ Len(chapter_refs) = 2
    /\ chapter_refs[1].url = "" /\ chapter_refs[1].id # <<>>
    /\ Accepted(chapter_refs[2]) /\ chapter_refs[2].id # chapter_refs[1].id
    /\ \E i \in Markers(content) : MarkerTag(content, i) = chapter_refs[1].id
    /\ \E i \in Markers(content) : MarkerTag(content, i) = chapter_refs[2].id

-----------------------------------------------------------------------------
(* C6 *)

\* C6: in the body a call returns, every marker whose tag has no entry in
\* the call's mapping stands unchanged at its place, every character outside
\* the markers stands unchanged at its place, and nothing else is added or
\* removed.  The place of a position is its offset moved by the length
\* differences of the replacements made before it.
C6_PassThrough ==
    pc = "returned" =>
        /\ \A i \in Markers(content) :
              MarkerTag(content, i) \notin DOMAIN local_to_global =>
                 ReadsAt(content, local_to_global, new_content, i, MarkerTag(content, i))
        /\ \A i \in 1..Len(content) :
              ~InMarker(content, i) =>
                 ReadsAt(content, local_to_global, new_content, i, <<content[i]>>)
        /\ Len(new_content) = Len(content) + Shift(content, local_to_global, Len(content) + 1)

\* A call has returned whose body holds an unmapped marker after a marker
\* that was replaced by a shorter one
C6_Witness ==
    /\ pc = "returned"
    /\ \E i \in Markers(content) :
          /\ MarkerTag(content, i) \notin DOMAIN local_to_global
          /\ Shift(content, local_to_global, i) # 0
    /\ new_content # content

-----------------------------------------------------------------------------
(* C8 *)

AcceptedTags == {chapter_refs[j].id : j \in {k \in 1..Len(chapter_refs) :
                                               Accepted(chapter_refs[k])}}

\* C8: the mapping of a call holds the tags of that call's accepted entries
\* and nothing else, each tag bound to the ID of the URL this call's list
\* gives it; a marker is rewritten to that ID, and a marker whose tag this
\* call's list does not bind is left alone whatever an earlier call bound it
\* to.
C8_ScopedMapping ==
    pc = "returned" =>
        /\ DOMAIN local_to_global = AcceptedTags
        /\ \A j \in 1..Len(chapter_refs) :
              (Accepted(chapter_refs[j]) /\ LastBinding(j)) =>
                 /\ local_to_global[chapter_refs[j].id] =
                       FormatRef(url_map[chapter_refs[j].url])
                 /\ \A i \in Markers(content) :
                       MarkerTag(content, i) = chapter_refs[j].id =>
                          ReadsAt(content, local_to_global, new_content, i,
                                  FormatRef(url_map[chapter_refs[j].url]))
        /\ \A i \in Markers(content) :
              MarkerTag(content, i) \notin AcceptedTags =>
                 ReadsAt(content, local_to_global, new_content, i, MarkerTag(content, i))

\* Two calls in a row bound the same tag to different IDs, and the second
\* body cites the tag
C8_Witness ==
    /\ pc = "returned"
    /\ \E t \in (DOMAIN prev_mapping) \cap (DOMAIN local_to_global) :
          /\ prev_mapping[t] # local_to_global[t]
          /\ \E i \in Markers(content) : MarkerTag(content, i) = t
          /\ new_content = local_to_global[t]

-----------------------------------------------------------------------------
(* Vocabulary of the properties of the assembled document *)

LoggedChapters == 1..Len(chapter_log)

\* The rewritten body that the document holds for logged chapter c
BodyOf(c) == full_report[chapter_log[c].piece].body

\* The accepted entries of a list that carry a given tag; the last one is the
\* one that binds the tag
BindersOf(refs, tag) == {j \in 1..Len(refs) : Accepted(refs[j]) /\ refs[j].id = tag}
Bound(refs, tag) == BindersOf(refs, tag) # {}
BoundUrl(refs, tag) ==
    refs[CHOOSE j \in BindersOf(refs, tag) : \A k \in BindersOf(refs, tag) : k <= j].url

\* The global ID of a registered URL, and the marker that cites it
GlobalIdOf(u) == url_map[u]
MappingOf(refs) ==
    [t \in {refs[j].id : j \in {k \in 1..Len(refs) : Accepted(refs[k])}} |->
        FormatRef(GlobalIdOf(BoundUrl(refs, t)))]

\* The manager lists URL u under ID g; the rendered bibliography does
Listed(g, u) ==
    \E k \in 1..Len(global_refs) : global_refs[k].id = g /\ global_refs[k].url = u
InBibliography(g, u) ==
    \E k \in 1..Len(BibUrls(bibliography)) :
        /\ BibMarkers(bibliography)[k] = FormatRef(g)
        /\ BibUrls(bibliography)[k] = u

\* Marker i of the generated body of chapter c stands in the document as the
\* marker of the global ID of the URL its tag is bound to, and the manager
\* and the rendered bibliography list that ID with that URL
CitesGlobalId(c, i) ==
    LET log == chapter_log[c]
        tag == MarkerTag(log.content, i)
        u   == BoundUrl(log.refs, tag)
    IN  /\ u \in DOMAIN url_map
        /\ ReadsAt(log.content, MappingOf(log.refs), BodyOf(c), i, FormatRef(GlobalIdOf(u)))
        /\ Listed(GlobalIdOf(u), u)
        /\ InBibliography(GlobalIdOf(u), u)

-----------------------------------------------------------------------------
(* C7 *)

\* C7 as stated: every marker of every chapter body of the assembled document
\* is bound by the chapter's list and cites the global ID of the URL it is
\* bound to
C7_AsStated ==
    rpc = "done" =>
    \A c \in LoggedChapters :
        \A i \in Markers(chapter_log[c].content) :
            /\ Bound(chapter_log[c].refs, MarkerTag(chapter_log[c].content, i))
            /\ CitesGlobalId(c, i)

\* C7: in every chapter body of the assembled document, a marker whose tag
\* the chapter's list binds to a URL reads [Ref-g], g the global ID of that
\* URL, and the manager and the bibliography list g with that URL; a marker
\* whose tag the list does not bind stands as the generator wrote it.
C7_BoundMarkersCiteGlobalIds ==
    rpc = "done" =>
    \A c \in LoggedChapters :
        \A i \in Markers(chapter_log[c].content) :
            LET log == chapter_log[c]
                tag == MarkerTag(log.content, i)
            IN  IF Bound(log.refs, tag)
                THEN CitesGlobalId(c, i)
                ELSE ReadsAt(log.content, MappingOf(log.refs), BodyOf(c), i, tag)

\* A finished document with a chapter whose marker was renumbered
C7_Witness ==
    /\ rpc = "done"
    /\ \E c \in LoggedChapters :
          \E i \in Markers(chapter_log[c].content) :
              LET log == chapter_log[c]
                  tag == MarkerTag(log.content, i)
              IN  /\ Bound(log.refs, tag)
                  /\ FormatRef(GlobalIdOf(BoundUrl(log.refs, tag))) # tag
                  /\ CitesGlobalId(c, i)

-----------------------------------------------------------------------------
(* C9 *)

\* C9: the list handed to process_chapter_content for a chapter has, at place
\* j, the j-th search result of that chapter under the tag [Ref-j]; it has
\* all of them when the generation returned a text, whatever references that
\* text carries, and none when the generation failed.  Every URL the manager
\* lists, and every URL of the rendered bibliography, was returned by the
\* search in this run.
C9_AuthoritativeRefs ==
    /\ rpc = "logging" =>
          /\ Len(chapter_refs) = IF chapter_log[Len(chapter_log)].failed
                                 THEN 0 ELSE Len(search_data)
          /\ \A j \in 1..Len(chapter_refs) :
                chapter_refs[j] = [id    |-> FormatRef(j),
                                   url   |-> search_data[j].url,
                                   title |-> search_data[j].title]
    /\ \A k \in 1..Len(global_refs) : global_refs[k].url \in searched
    /\ rpc = "done" =>
          \A k \in 1..Len(BibUrls(bibliography)) : BibUrls(bibliography)[k] \in searched

\* A finished document with a bibliography, one of whose chapters was
\* generated with a reference block of its own from two search results
C9_Witness ==
    /\ rpc = "done"
    /\ bibliography # <<>>
    /\ \E c \in LoggedChapters :
          /\ ~chapter_log[c].failed
          /\ FindSub(chapter_log[c].outcome, Separator) > 0
          /\ Len(chapter_log[c].refs) = 2

-----------------------------------------------------------------------------
(* C10 *)

\* Every chapter of the outline was generated and added; none failed
AllChaptersSucceeded ==
    /\ rpc = "done"
    /\ Len(chapter_log) = Len(outline)
    /\ \A c \in LoggedChapters : ~chapter_log[c].failed
    /\ \A p \in 1..Len(full_report) : full_report[p].kind # "failed"

\* The URLs of the search results of all chapters, in chapter order and
\* candidate order
RECURSIVE CandidateUrlsFrom(_)
CandidateUrlsFrom(c) ==
    IF c > Len(chapter_log) THEN <<>>
    ELSE [j \in 1..Len(chapter_log[c].raw_data) |-> chapter_log[c].raw_data[j].url]
            \o CandidateUrlsFrom(c + 1)

\* A list without its empty URLs and without the repetitions of a URL
RECURSIVE FirstAppearances(_, _)
FirstAppearances(urls, acc) ==
    IF urls = <<>> THEN acc
    ELSE FirstAppearances(Tail(urls),
                          IF Head(urls) = "" \/ Head(urls) \in Range(acc)
                          THEN acc ELSE Append(acc, Head(urls)))

\* C10: in a finished document all of whose chapters succeeded, a marker
\* [Ref-n] of a chapter's generated body, n at most the number of that
\* chapter's search results and result n having a URL, reads [Ref-g] where
\* the bibliography lists that URL in its g-th line under [Ref-g]; the
\* bibliography lists every URL once, in order of first appearance over the
\* chapters' search results.
C10_EndToEnd ==
    AllChaptersSucceeded =>
        /\ BibUrls(bibliography) = FirstAppearances(CandidateUrlsFrom(1), <<>>)
        /\ \A k \in 1..Len(BibUrls(bibliography)) :
              BibMarkers(bibliography)[k] = FormatRef(k)
        /\ \A c \in LoggedChapters :
              \A i \in Markers(chapter_log[c].content) :
                 \A n \in 1..Len(chapter_log[c].raw_data) :
                    (/\ MarkerTag(chapter_log[c].content, i) = FormatRef(n)
                     /\ chapter_log[c].raw_data[n].url # "")
                    => \E g \in 1..Len(BibUrls(bibliography)) :
                          /\ BibUrls(bibliography)[g] = chapter_log[c].raw_data[n].url
                          /\ ReadsAt(chapter_log[c].content, MappingOf(chapter_log[c].refs),
                                     BodyOf(c), i, FormatRef(g))

\* A finished two-chapter document, all chapters succeeded, in which the
\* second chapter's search returned a URL of the first chapter and a new
\* one, the new one first, and the second body was renumbered
C10_Witness ==
    /\ AllChaptersSucceeded
    /\ Len(chapter_log) = 2
    /\ chapter_log[1].raw_data = <<ItemA>>
    /\ chapter_log[2].raw_data = <<ItemB, ItemA>>
    /\ Len(BibUrls(bibliography)) = 2
    /\ Markers(chapter_log[2].content) # {}
    /\ BodyOf(2) # chapter_log[2].content

-----------------------------------------------------------------------------
(* Vocabulary of the failure properties *)

\* The chapters and failure markers of the document, in document order
Sections ==
    SelectSeq(full_report, LAMBDA piece : piece.kind \in {"chapter", "failed"})

\* The log tells that chapter k failed
FailureLogged(k) ==
    \E i \in 1..Len(log_stream) :
        /\ log_stream[i].chapter = k
        /\ log_stream[i].line \in {"generation failed", "failed"}

\* The document holds a failure marker under the heading of chapter k
MarkedFailed(k) ==
    \E p \in 1..Len(full_report) :
        full_report[p].kind = "failed" /\ full_report[p].title = ChapterTitle(k)

\* Logged chapter c is recorded as failed in the document: its body is the
\* text of the generation failure, or a failure marker carries its heading
RecordedFailed(c) ==
    chapter_log[c].failed \/ MarkedFailed(chapter_log[c].chapter)

AcceptedUrls(refs) == {refs[j].url : j \in {k \in 1..Len(refs) : Accepted(refs[k])}}

-----------------------------------------------------------------------------
(* C11 *)

\* C11 as stated: every processed chapter whose search failed or whose
\* generation failed stands in the document with the failure text as its
\* body, and the log tells its failure
C11_AsStated ==
    \A c \in LoggedChapters :
        (chapter_log[c].source = "error" \/ chapter_log[c].failed) =>
            /\ BodyOf(c) = ErrorMsg
            /\ FailureLogged(chapter_log[c].chapter)

-----------------------------------------------------------------------------
(* C12 *)

\* C12 as stated: every reference the manager lists was registered from a
\* chapter that is not recorded as failed in the document
C12_AsStated ==
    \A g \in 1..Len(global_refs) :
        \E c \in LoggedChapters :
            /\ global_refs[g].url \in AcceptedUrls(chapter_log[c].refs)
            /\ ~RecordedFailed(c)

-----------------------------------------------------------------------------
(* C13 *)

\* A list without the immediate repetitions of its elements
RECURSIVE Collapse(_)
Collapse(seq) ==
    IF Len(seq) <= 1 THEN seq
    ELSE IF seq[1] = seq[2] THEN Collapse(Tail(seq))
    ELSE <<seq[1]>> \o Collapse(Tail(seq))

\* C13: the returned document starts with the header; the headings that
\* follow list every chapter of the outline in outline order (a chapter whose
\* body was added before its try block raised has two: its body, then the
\* failure marker); under each heading stands the rewritten body of that
\* chapter or the failure marker, and the body of a chapter whose generation
\* failed is the failure text; the bibliography, when any reference is
\* registered, is the last piece and the only one of its kind, and renders
\* the references of all processed chapters.
C13_DocumentStructure ==
    rpc = "done" =>
        /\ full_report[1] = HeaderPiece
        /\ Collapse([i \in 1..Len(Sections) |-> Sections[i].title])
              = [k \in 1..Len(outline) |-> outline[k].title]
        /\ \A c \in LoggedChapters :
              /\ full_report[chapter_log[c].piece]
                    = ChapterPiece(ChapterTitle(chapter_log[c].chapter), BodyOf(c))
              /\ BodyOf(c) = ReSub(MappingOf(chapter_log[c].refs), chapter_log[c].content)
              /\ chapter_log[c].failed => BodyOf(c) = ErrorMsg
        /\ Len(SelectSeq(full_report, LAMBDA piece : piece.kind = "chapter"))
              = Len(chapter_log)
        /\ \A p \in 2..Len(full_report) :
              full_report[p].kind = "bibliography" =>
                 /\ p = Len(full_report)
                 /\ full_report[p].body = bibliography_text
                 /\ bibliography = GetFinalBibliographyOf(global_refs)
        /\ global_refs # <<>> => full_report[Len(full_report)].kind = "bibliography"
        /\ \A c \in LoggedChapters :
              AcceptedUrls(chapter_log[c].refs) \subseteq Range(BibUrls(bibliography))

\* A returned document of two chapters, the first with a body, the second
\* with the failure marker, closed by a bibliography
C13_Witness ==
    /\ rpc = "done"
    /\ Len(outline) = 2
    /\ Len(full_report) = 4
    /\ full_report[2].kind = "chapter"
    /\ full_report[3].kind = "failed"
    /\ full_report[4].kind = "bibliography"

-----------------------------------------------------------------------------
(* C14 *)

\* C14 as stated: a document is returned only for an outline that is not
\* empty and has a chapter that did not fail
C14_AsStated ==
    rpc = "done" =>
        /\ outline # <<>>
        /\ \E c \in LoggedChapters : ~RecordedFailed(c)

-----------------------------------------------------------------------------
(* C15 *)

\* C15: process_chapter_content is called at most once per chapter, in
\* outline order; while chapter k is searched or generated, every processed
\* chapter is an earlier one, and it has its piece in the document and its
\* summary in previous_summaries; the lines of the log never go back to an
\* earlier chapter.
C15_Sequential ==
    /\ \A c, d \in LoggedChapters :
          c < d => /\ chapter_log[c].chapter < chapter_log[d].chapter
                   /\ chapter_log[c].piece < chapter_log[d].piece
    /\ \A c \in LoggedChapters :
          /\ chapter_log[c].chapter <= Len(outline)
          /\ chapter_log[c].piece <= Len(full_report)
          /\ rpc \in {"chapter", "searched"} => chapter_log[c].chapter <= index
          /\ rpc = "logging" => chapter_log[c].chapter <= index + 1
    /\ Len(previous_summaries) = Len(chapter_log)
    /\ \A c \in LoggedChapters :
          previous_summaries[c].title = ChapterTitle(chapter_log[c].chapter)
    /\ \A i, j \in 1..Len(log_stream) :
          i < j => log_stream[i].chapter <= log_stream[j].chapter
    /\ \A i, j \in 1..Len(log_stream) :
          (i < j /\ log_stream[j].line = "started")
             => log_stream[i].chapter < log_stream[j].chapter

\* The search of the second chapter has returned after the first chapter was
\* processed, added and summarized
C15_Witness ==
    /\ rpc = "searched"
    /\ index = 1
    /\ Len(chapter_log) = 1
    /\ chapter_log[1].chapter = 1
    /\ Len(previous_summaries) = 1
    /\ full_report[chapter_log[1].piece].kind = "chapter"

-----------------------------------------------------------------------------
(* C16 *)

\* C16 as stated: a run that was stopped after it had completed a chapter was
\* stopped between two chapters, and the document of the chapters completed
\* so far, header and bibliography included, is there to be returned
C16_AsStated ==
    (rpc = "stopped" /\ ended_at.completed > 0) =>
        /\ ended_at.at = "chapter"
        /\ Len(full_report) > ended_at.completed
        /\ full_report[Len(full_report)].kind = "bibliography"

-----------------------------------------------------------------------------
(* C17 *)

\* C17: a call of get_final_bibliography leaves the URL map, the reference
\* list and the next-ID counter as they were, and the call that would follow
\* it with no process_chapter_content call in between returns the same lines
\* and the same string.
C17_ReadOnlyIdempotent ==
    [][(pc = "idle" /\ pc' = "rendered") =>
          /\ url_map' = url_map
          /\ global_refs' = global_refs
          /\ next_id' = next_id
          /\ GetFinalBibliographyOf(global_refs') = bibliography'
          /\ BibliographyText(GetFinalBibliographyOf(global_refs')) = bibliography_text'
      ]_vars

\* A bibliography of two references has been rendered
C17_Witness ==
    /\ pc = "rendered"
    /\ Len(global_refs) = 2
    /\ bibliography_text # ""

-----------------------------------------------------------------------------
(* C18 *)

\* The entry lines from the k-th reference on, each after a line break
RECURSIVE EntryLinesFrom(_)
EntryLinesFrom(k) ==
    IF k > Len(global_refs) THEN ""
    ELSE "\n- [Ref-" \o ToString(global_refs[k].id) \o "] " \o global_refs[k].title
            \o ", LianJie: " \o global_refs[k].url \o EntryLinesFrom(k + 1)

\* C18: the string get_final_bibliography returns is empty when no reference
\* is registered; otherwise it is an empty line, the rule '---', a blank
\* line, the heading, a blank line, and one line
\* '- [Ref-{id}] {title}, LianJie: {url}' per registered reference, in
\* ascending ID order, with no line break after the last.
C18_Rendering ==
    pc = "rendered" =>
        /\ global_refs = <<>> => bibliography_text = ""
        /\ global_refs # <<>> =>
              bibliography_text
                 = "\n---\n\n## CanKaoWenXian (References)\n" \o EntryLinesFrom(1)
        /\ \A k \in 1..Len(global_refs) : global_refs[k].id = k

\* A bibliography of two references has been rendered, the two with
\* different titles
C18_Witness ==
    /\ pc = "rendered"
    /\ Len(global_refs) = 2
    /\ global_refs[1].title # global_refs[2].title

\* No reference is registered and the bibliography has been rendered
C18_WitnessEmpty ==
    /\ pc = "rendered"
    /\ global_refs = <<>>

-----------------------------------------------------------------------------
(* The pair that parse_chapter_output returns *)

\* s without the whitespace before its first and after its last character
\* that is not whitespace
Trimmed(s) ==
    LET inked == {i \in 1..Len(s) : s[i] \notin Whitespace}
    IN  IF inked = {} THEN <<>>
        ELSE SubSeq(s, CHOOSE i \in inked : \A j \in inked : i <= j,
                       CHOOSE i \in inked : \A j \in inked : i >= j)

HasSeparator(raw) == FindSub(raw, Separator) > 0

BeforeSeparator(raw) == SubSeq(raw, 1, FindSub(raw, Separator) - 1)

AfterSeparator(raw) == SubSeq(raw, FindSub(raw, Separator) + Len(Separator), Len(raw))

Fields(line) == SplitOn(line, "|")

HasThreeFields(line) == Len(Fields(line)) >= 3

\* The lines of the text that have at least 3 fields, in line order
EntryLinesOf(text) == SelectSeq(SplitOn(text, "\n"), HasThreeFields)

\* C19: when the raw text contains the separator, the body returned is the
\* text before the first separator, trimmed, and the references returned are,
\* in line order, one per line of the text after it that has at least 3
\* fields between bars: the first three fields, trimmed, as id, url and
\* title; every other line is skipped.
C19_SeparatorGrammar ==
    (ppc = "parsed" /\ HasSeparator(raw_text)) =>
        /\ parsed.content = Trimmed(BeforeSeparator(raw_text))
        /\ Len(parsed.refs) = Len(EntryLinesOf(AfterSeparator(raw_text)))
        /\ \A k \in 1..Len(parsed.refs) :
              LET f == Fields(EntryLinesOf(AfterSeparator(raw_text))[k])
              IN  parsed.refs[k] =
                      [id |-> Trimmed(f[1]), url |-> Trimmed(f[2]), title |-> Trimmed(f[3])]

\* A body, a line of 2 fields that is skipped and a line of 4 fields whose
\* first three are taken and trimmed
C19_Witness ==
    /\ ppc = "parsed"
    /\ HasSeparator(raw_text)
    /\ parsed.content # <<>>
    /\ \E k \in 1..Len(SplitOn(AfterSeparator(raw_text), "\n")) :
          Len(Fields(SplitOn(AfterSeparator(raw_text), "\n")[k])) = 2
    /\ \E k \in 1..Len(parsed.refs) :
          /\ Len(Fields(EntryLinesOf(AfterSeparator(raw_text))[k])) = 4
          /\ parsed.refs[k].url # Fields(EntryLinesOf(AfterSeparator(raw_text))[k])[2]

-----------------------------------------------------------------------------
(* C21 *)

\* A value that parse_chapter_output may return: a text and a list of dicts
\* of three texts
IsText(s) == DOMAIN s = 1..Len(s)

IsParsedPair(pair) ==
    /\ IsText(pair.content)
    /\ IsText(pair.refs)
    /\ \A k \in 1..Len(pair.refs) :
          /\ DOMAIN pair.refs[k] = {"id", "url", "title"}
          /\ IsText(pair.refs[k].id)
          /\ IsText(pair.refs[k].url)
          /\ IsText(pair.refs[k].title)

\* Nothing of the text can be read as a reference: no separator, and
\* neither pattern matches anywhere
NothingToParse(raw) ==
    /\ ~HasSeparator(raw)
    /\ \A i \in 1..Len(raw) : Pattern1At(raw, i) = <<>> /\ Pattern2At(raw, i) = <<>>

\* C21: no call of parse_chapter_output is left by an exception; what it
\* returns is a pair of a body and a reference list, the body being the
\* trimmed text before the first separator or, without separator, the whole
\* trimmed text; a text in which nothing can be read as a reference comes
\* back whole, trimmed, with the empty list.
C21_NeverRaises ==
    /\ ppc # "raised"
    /\ ppc = "parsed" =>
          /\ IsParsedPair(parsed)
          /\ parsed.content = Trimmed(IF HasSeparator(raw_text)
                                      THEN BeforeSeparator(raw_text) ELSE raw_text)
          /\ NothingToParse(raw_text) =>
                parsed = [content |-> Trimmed(raw_text), refs |-> <<>>]

\* A malformed references block has been parsed: a body, the separator, a
\* line of two fields and a line of bars alone, and no reference comes out
\* of the line of two fields
C21_Witness ==
    /\ ppc = "parsed"
    /\ HasSeparator(raw_text)
    /\ \E k \in 1..Len(SplitOn(AfterSeparator(raw_text), "\n")) :
          Len(Fields(SplitOn(AfterSeparator(raw_text), "\n")[k])) = 2
    /\ Len(parsed.refs) < Len(SplitOn(Trimmed(AfterSeparator(raw_text)), "\n"))

-----------------------------------------------------------------------------
(* C22 *)

\* What a run makes of its chapters when it runs alone: the manager after
\* the first k of them, from a manager of its own
RECURSIVE AloneManager(_, _)
AloneManager(chapters, k) ==
    IF k = 0 THEN FreshManager
    ELSE CallOn(AloneManager(chapters, k - 1),
                chapters[k].content, chapters[k].refs).manager

AloneCall(chapters, k) ==
    CallOn(AloneManager(chapters, k - 1), chapters[k].content, chapters[k].refs)

\* C22: however the chapters of two runs are interleaved, every chapter of a
\* run gets the mapping of local tags to global IDs and the rewritten body
\* that the run would get alone, and the bibliography of a finished run is
\* the one it would render alone.
C22_NoCrossRunSharing ==
    \A run \in Runs :
        /\ \A k \in 1..Len(run_chapters[run]) :
              /\ run_chapters[run][k].mapping = AloneCall(run_chapters[run], k).mapping
              /\ run_chapters[run][k].new_content
                    = AloneCall(run_chapters[run], k).new_content
        /\ run_pc[run] = "done" =>
              run_bibliography[run]
                 = BibliographyText(GetFinalBibliographyOf(
                      AloneManager(run_chapters[run],
                                   Len(run_chapters[run])).global_refs))

\* Both runs are under way, each has processed a chapter, and they have
\* given the same URL different IDs
C22_Witness ==
    /\ run_pc["a"] = "running"
    /\ run_pc["b"] = "running"
    /\ Len(run_chapters["a"]) = 2
    /\ Len(run_chapters["b"]) = 1
    /\ "https://b.com" \in DOMAIN managers["a"].url_map
    /\ "https://b.com" \in DOMAIN managers["b"].url_map
    /\ managers["a"].url_map["https://b.com"] # managers["b"].url_map["https://b.com"]

-----------------------------------------------------------------------------
(* C23 *)

\* C23: no step of the manager, a process_chapter_content call or a
\* get_final_bibliography call, changes or removes a global reference
\* that exists: the list after the step starts with the list before it, id,
\* url and title of every entry included, and next_id does not go down.
C23_AppendOnly ==
    [][/\ Len(global_refs') >= Len(global_refs)
       /\ SubSeq(global_refs', 1, Len(global_refs)) = global_refs
       /\ next_id' >= next_id
       /\ \A u \in DOMAIN url_map : u \in DOMAIN url_map' /\ url_map'[u] = url_map[u]
      ]_vars

\* A call has returned whose list brought a registered URL back under a
\* title that is not the registered one, next to a URL it registered
C23_Witness ==
    /\ pc = "returned"
    /\ Len(global_refs) = 2
    /\ \E j \in 1..Len(chapter_refs) :
          /\ Accepted(chapter_refs[j])
          /\ global_refs[1].url = chapter_refs[j].url
          /\ global_refs[1].title # chapter_refs[j].title
    /\ \E j \in 1..Len(chapter_refs) : global_refs[2].url = chapter_refs[j].url

-----------------------------------------------------------------------------
(* C24 *)

\* The lines of a text that are not blank, trimmed, in order
NonBlankLines(text) ==
    SelectSeq([k \in 1..Len(SplitOn(text, "\n")) |-> Trimmed(SplitOn(text, "\n")[k])],
              LAMBDA line : line # <<>>)

Ellipsis == <<".", ".", ".">>

\* C24 as stated: the summary is the first max_length characters of the
\* non-blank lines of the content (the lines trimmed and set one after the
\* other with a blank between, the three dots that close the summary left
\* aside)
C24_AsStated ==
    spc = "summarized" =>
        chapter_summary
           = Take(Join(NonBlankLines(summary_content), <<" ">>), summary_max_length)
             \o Ellipsis

-----------------------------------------------------------------------------
(* C25 *)

\* The entries of a list that carry both a tag and a URL
WithTagAndUrl(refs) == {k \in 1..Len(refs) : refs[k].id # <<>> /\ refs[k].url # ""}

RegisteredUrls(refs) == {refs[k].url : k \in 1..Len(refs)}

\* C25: a call registers the entries of its list that carry both a non-empty
\* tag and a non-empty URL, and no other: each of them has its URL among the
\* global references and its tag bound for the call, the URLs the call adds
\* are those of such entries that were not known, and the tags bound are
\* theirs; neither the body nor the shape of the tag has a part in it.
C25_RegisteredExactly ==
    [][(pc = "called" /\ pc' = "returned") =>
          LET taken == WithTagAndUrl(chapter_refs)
          IN  /\ \A k \in taken :
                    /\ chapter_refs[k].url \in RegisteredUrls(global_refs')
                    /\ chapter_refs[k].url \in DOMAIN url_map'
                    /\ chapter_refs[k].id \in DOMAIN local_to_global'
              /\ RegisteredUrls(global_refs') \ RegisteredUrls(global_refs)
                    = {chapter_refs[k].url : k \in taken} \ RegisteredUrls(global_refs)
              /\ DOMAIN local_to_global' = {chapter_refs[k].id : k \in taken}
              /\ Len(global_refs') - Len(global_refs)
                    = Cardinality({chapter_refs[k].url : k \in taken}
                                     \ RegisteredUrls(global_refs))]_vars

\* A call has returned whose list had an entry with a tag that is no marker
\* and that the body does not hold, its URL now registered, and an entry with
\* a URL and no tag, its URL not registered
C25_Witness ==
    /\ pc = "returned"
    /\ content = FormatRef(1)
    /\ \E k, j \in 1..Len(chapter_refs) :
          /\ chapter_refs[k].id = <<"[", "1", "]">>
          /\ chapter_refs[k].url \in RegisteredUrls(global_refs)
          /\ chapter_refs[j].id = <<>>
          /\ chapter_refs[j].url # ""
          /\ chapter_refs[j].url \notin RegisteredUrls(global_refs)

-----------------------------------------------------------------------------
(* C26 *)

Indices(s) == [i \in 1..Len(s) |-> i]

\* The markers of a text, in the order they stand in it
MarkerSeq(s) ==
    LET starts == SelectSeq(Indices(s), LAMBDA i : i \in Markers(s))
    IN  [k \in 1..Len(starts) |-> MarkerTag(s, starts[k])]

\* The characters of a text that stand outside its markers, in order
OutsideMarkers(s) ==
    LET at == SelectSeq(Indices(s), LAMBDA i : ~InMarker(s, i))
    IN  [k \in 1..Len(at) |-> s[at[k]]]

\* C26: the returned body has as many markers as the body passed; its k-th
\* marker is what the call's mapping gives for the k-th marker of the body
\* passed, looked up once, or that marker itself when the mapping has none;
\* the text outside the markers is the same.
C26_SimultaneousSubstitution ==
    pc = "returned" =>
        /\ Len(MarkerSeq(new_content)) = Len(MarkerSeq(content))
        /\ \A k \in 1..Len(MarkerSeq(content)) :
              MarkerSeq(new_content)[k]
                 = IF MarkerSeq(content)[k] \in DOMAIN local_to_global
                   THEN local_to_global[MarkerSeq(content)[k]]
                   ELSE MarkerSeq(content)[k]
        /\ OutsideMarkers(new_content) = OutsideMarkers(content)

\* A chapter whose mapping swaps the numbers 1 and 2 has been rewritten: its
\* body cited both, and now cites them the other way round
C26_Witness ==
    /\ pc = "returned"
    /\ FormatRef(1) \in DOMAIN local_to_global
    /\ FormatRef(2) \in DOMAIN local_to_global
    /\ local_to_global[FormatRef(1)] = FormatRef(2)
    /\ local_to_global[FormatRef(2)] = FormatRef(1)
    /\ content = FormatRef(1) \o FormatRef(2)
    /\ new_content = FormatRef(2) \o FormatRef(1)

-----------------------------------------------------------------------------
(* C27 *)

\* C27: in every state of the manager next_id = len(global_refs) + 1, the
\* i-th entry of global_refs has id i, the URLs of global_refs are pairwise
\* distinct and non-empty, the keys of url_map are exactly those URLs, each
\* bound to the id of its entry, and get_ref_count returns len(global_refs).
C27_Structure ==
    /\ next_id = Len(global_refs) + 1
    /\ \A i \in 1..Len(global_refs) : global_refs[i].id = i
    /\ \A i, j \in 1..Len(global_refs) :
          global_refs[i].url = global_refs[j].url => i = j
    /\ \A i \in 1..Len(global_refs) : global_refs[i].url # ""
    /\ DOMAIN url_map = {global_refs[i].url : i \in 1..Len(global_refs)}
    /\ \A i \in 1..Len(global_refs) : url_map[global_refs[i].url] = global_refs[i].id
    /\ pc = "counted" => ref_count = Len(global_refs)

\* The count of a manager that holds two references has been returned
C27_Witness ==
    /\ pc = "counted"
    /\ ref_count = 2
    /\ Len(global_refs) = 2
    /\ next_id = 3

-----------------------------------------------------------------------------
(* C28 *)

\* The number of the chapter that a recorded summary belongs to
ChapterOfSummary(entry) == CHOOSE i \in 1..Len(outline) : ChapterTitle(i) = entry.title

\* Chapter j ended in the except block of the loop
EndedInHandler(j) == \E k \in 1..Len(log_stream) : log_stream[k] = LogLine(j, "failed")

\* C28 as stated: the context built for chapter index + 1 is made of the
\* summaries of the last two at most of the earlier chapters that recorded
\* one, in document order; it is empty for the first chapter; and no chapter
\* that ended in the except block has a summary on record.
C28_AsStated ==
    rpc = "searched" =>
        /\ previous_context = LastTwo(previous_summaries)
        /\ Len(previous_context) <= 2
        /\ index = 0 => previous_context = <<>>
        /\ \A k \in 1..Len(previous_context) :
              ChapterOfSummary(previous_context[k]) <= index
        /\ \A k, l \in 1..Len(previous_context) :
              k < l => ChapterOfSummary(previous_context[k])
                          < ChapterOfSummary(previous_context[l])
        /\ \A j \in 1..index :
              EndedInHandler(j) =>
                 \A k \in 1..Len(previous_summaries) :
                    ChapterOfSummary(previous_summaries[k]) # j

-----------------------------------------------------------------------------
(* C29 *)

\* The summary that the loop records for a chapter whose content is the
\* failure message
FailureSummary(chapter) ==
    [title   |-> ChapterTitle(chapter),
     summary |-> SummarizeChapter(ErrorMsg, SummaryMaxLength)]

\* C29: a chapter whose completion call failed has the failure message as
\* its content and no references; the report holds the message under the
\* chapter's heading, as process_chapter_content returned it; its summary is
\* on record, and the context built for a later chapter holds it while it is
\* one of the last two.
C29_FailureAsChapter ==
    \A k \in 1..Len(chapter_log) :
       chapter_log[k].failed =>
          /\ chapter_log[k].content = ErrorMsg
          /\ chapter_log[k].refs = <<>>
          /\ full_report[chapter_log[k].piece]
                = ChapterPiece(ChapterTitle(chapter_log[k].chapter), ErrorMsg)
          /\ \E p \in 1..Len(previous_summaries) :
                /\ previous_summaries[p] = FailureSummary(chapter_log[k].chapter)
                /\ (rpc = "searched" /\ p > Len(previous_summaries) - 2)
                      => \E q \in 1..Len(previous_context) :
                            previous_context[q] = FailureSummary(chapter_log[k].chapter)

\* The search of chapter 2 has returned, with the summary of the failure
\* message of chapter 1 as context; the search of chapter 1 had found a source
C29_Witness ==
    /\ rpc = "searched"
    /\ index = 1
    /\ Len(chapter_log) = 1
    /\ chapter_log[1].failed
    /\ chapter_log[1].raw_data # <<>>
    /\ previous_context = <<FailureSummary(1)>>
    /\ full_report[2] = ChapterPiece(ChapterTitle(1), ErrorMsg)

-----------------------------------------------------------------------------
(* C30 *)

\* How many calls of one kind the run has made for chapter j
CallsOf(j, call) ==
    Cardinality({k \in 1..Len(attempts) : attempts[k] = [chapter |-> j, call |-> call]})

\* How many times the loop has finished an iteration for chapter j, by its
\* closing line or by its except block
IterationsOf(j) ==
    Cardinality({k \in 1..Len(log_stream) :
                    /\ log_stream[k].chapter = j
                    /\ log_stream[k].line \in {"done", "failed"}})

C30_NoRetry ==
    /\ \A j \in 1..Len(outline) :
          /\ CallsOf(j, "search") <= 1
          /\ CallsOf(j, "completion") <= CallsOf(j, "search")
          /\ LogLine(j, "done") \in Range(log_stream)
                => CallsOf(j, "search") = 1 /\ CallsOf(j, "completion") = 1
          /\ IterationsOf(j) = IF j <= index THEN 1 ELSE 0
    /\ \A k, l \in 1..Len(attempts) :
          k < l => attempts[k].chapter <= attempts[l].chapter
    /\ \A k \in 1..Len(attempts) : attempts[k].chapter <= index + 1
    /\ rpc = "done" => index = Len(outline)

====
